---------------------------- MODULE Spec2Model ----------------------------
(***************************************************************************)
(* A model of PixelVoxel (src/app.js).  The pixel editor (class            *)
(* PixelEditor): the layer stack, the drawing tools, the flood fill, the   *)
(* lasso, the crop, the snapshot history and save.  The asset list (class  *)
(* PixelArtManager) and the imports of UIController: file picker, folder   *)
(* import and server auto-load.  The color analysis: analyzeImage,         *)
(* quantizeColors, colorDistance and calculatePaletteMatch.                *)
(*                                                                         *)
(* Conventions.                                                            *)
(*   - A JavaScript string is a sequence of one-character strings.         *)
(*   - A pixel is <<r, g, b, a>>, 8 bits a channel.  A canvas keeps a      *)
(*     pixel of alpha 0 as <<0, 0, 0, 0>> (premultiplied storage).         *)
(*   - A canvas, an ImageData and a decoded image are surfaces             *)
(*     [w, h, data], data the w*h pixels row by row.                       *)
(*   - Indices keep the source's values: currentLayerIndex and             *)
(*     historyIndex count from 0, so element i of a JavaScript array is    *)
(*     element i + 1 of the sequence that models it.                       *)
(***************************************************************************)
EXTENDS Integers, Sequences, FiniteSets, TLC

VARIABLES
    modalActive,        \* this.modal.classList contains 'active'
    imageData,          \* this.imageData: <<>> (null) or <<[width, height]>>
    pending,            \* images whose img.onload has not fired yet
    canvasW, canvasH,   \* this.canvas.width / height
    layers,             \* this.layers
    currentLayerIndex,  \* this.currentLayerIndex
    history,            \* this.history
    historyIndex,       \* this.historyIndex
    currentTool,        \* this.currentTool
    primaryColor,       \* this.primaryColor
    palette,            \* this.palette
    fillShape,          \* this.fillShape
    isDrawing,          \* this.isDrawing
    startX, startY,     \* this.startX / startY
    tempLayer,          \* the pixels of this.tempCanvas (shape preview)
    cropMode,           \* this.cropMode
    cropRect,           \* this.cropRect: <<>> (null) or <<[x, y, width, height]>>
    lassoMode,          \* this.lassoMode (the lasso controls are shown)
    lassoPoints,        \* this.lassoPoints
    lassoContent,       \* this.lassoContent: <<>> (null) or <<[x, y, surface]>>
    fillArg,            \* the flood-fill study: <<>> or <<[layer, x, y, color]>>
    fillOut,            \* the flood-fill study: the results computed so far
    images,             \* manager.images (the asset list)
    masterPalette,      \* manager.masterPalette
    selectedImage,      \* manager.selectedImage: 0 (null) or the position in images
    importKind,         \* the import that runs: "none", "files", "folder", "server"
    importFiles,        \* its files, in input order
    importPos,          \* how many of them its loop has taken
    reading,            \* the files whose FileReader has not answered yet
    decoding,           \* the Image objects whose load is in flight
    processed,          \* its counter `processed`
    skipped,            \* its counter `skipped`
    importDone,         \* its loop has ended (the summary was shown)
    call,               \* a call of a function of the color analysis: <<>> or <<args>>
    result,             \* the values the call returned so far
    disk,               \* the server's file system: path -> "dir" or a file's bytes
    response            \* the body of the server's last response: <<>> or <<body>>

vars == <<modalActive, imageData, pending, canvasW, canvasH, layers,
          currentLayerIndex, history, historyIndex, currentTool, primaryColor,
          palette, fillShape, isDrawing, startX, startY, tempLayer, cropMode, cropRect,
          lassoMode, lassoPoints, lassoContent, fillArg, fillOut,
          images, masterPalette, selectedImage,
          importKind, importFiles, importPos, reading, decoding, processed,
          skipped, importDone, call, result, disk, response>>

---------------------------------------------------------------------------
(* Bounds of the model.                                                    *)

\* Width and height of the images opened in the editor.
ImgW == 2
ImgH == 1
\* The layer stack grows to at most this many layers.
MaxLayers == 2
\* Snapshots taken in one explored session of the full editor.
MaxSnapshots == 2
\* Width and height of the largest layer of the flood-fill study.
MaxFillW == 3
MaxFillH == 2

\* this.maxHistory
maxHistory == 50

---------------------------------------------------------------------------
(* Strings and colors.                                                     *)

Min(a, b) == IF a < b THEN a ELSE b
Max(a, b) == IF a > b THEN a ELSE b
Abs(a) == IF a < 0 THEN -a ELSE a

HexDigitsLower == <<"0", "1", "2", "3", "4", "5", "6", "7",
                    "8", "9", "a", "b", "c", "d", "e", "f">>
HexDigitsUpper == <<"0", "1", "2", "3", "4", "5", "6", "7",
                    "8", "9", "A", "B", "C", "D", "E", "F">>

\* String.prototype.toUpperCase on the characters the editor's colors use.
UpperChar(c) ==
    IF \E i \in 1..16 : HexDigitsLower[i] = c
    THEN HexDigitsUpper[CHOOSE i \in 1..16 : HexDigitsLower[i] = c]
    ELSE c

toUpperCase(s) == [i \in 1..Len(s) |-> UpperChar(s[i])]

\* The value of a hex digit of either case, -1 for any other character.
HexVal(c) ==
    IF \E i \in 1..16 : HexDigitsLower[i] = c \/ HexDigitsUpper[i] = c
    THEN (CHOOSE i \in 1..16 : HexDigitsLower[i] = c \/ HexDigitsUpper[i] = c) - 1
    ELSE -1

\* hexToRgb: <<>> models null, <<r, g, b>> the parsed color.
hexToRgb(hex) ==
    LET body == IF Len(hex) > 0 /\ hex[1] = "#" THEN Tail(hex) ELSE hex
    IN  IF Len(body) = 6 /\ \A i \in 1..6 : HexVal(body[i]) >= 0
        THEN << 16 * HexVal(body[1]) + HexVal(body[2]),
                16 * HexVal(body[3]) + HexVal(body[4]),
                16 * HexVal(body[5]) + HexVal(body[6]) >>
        ELSE <<>>

\* A faulty variant of the padding of rgbToHex: toString(16) as it is.
HexByteNoPad(x) ==
    IF x < 16 THEN <<HexDigitsLower[x + 1]>>
    ELSE <<HexDigitsLower[(x \div 16) + 1], HexDigitsLower[(x % 16) + 1]>>

\* Number.prototype.toString(16) of x in 0..255, padded as rgbToHex pads it.
HexByte(x) ==
    IF x < 16 THEN <<"0", HexDigitsLower[x + 1]>>
    ELSE <<HexDigitsLower[(x \div 16) + 1], HexDigitsLower[(x % 16) + 1]>>

rgbToHex(r, g, b) == <<"#">> \o HexByte(r) \o HexByte(g) \o HexByte(b)

\* The sentinel 'TRANSPARENT'.
TRANSPARENT == <<"T", "R", "A", "N", "S", "P", "A", "R", "E", "N", "T">>

Black == <<"#", "0", "0", "0", "0", "0", "0">>
White == <<"#", "F", "F", "F", "F", "F", "F">>

---------------------------------------------------------------------------
(* Pixels and surfaces (the canvas 2D API as the editor uses it).         *)

Clear == <<0, 0, 0, 0>>

\* What a canvas stores for a written pixel.
Stored(p) == IF p[4] = 0 THEN Clear ELSE p

NewSurface(w, h) == [w |-> w, h |-> h, data |-> [i \in 1..(w * h) |-> Clear]]

InSurface(s, x, y) == x >= 0 /\ y >= 0 /\ x < s.w /\ y < s.h

PixelAt(s, x, y) == IF InSurface(s, x, y) THEN s.data[y * s.w + x + 1] ELSE Clear

\* Rounded quotient of naturals, halves up.
RoundDiv(n, d) == (2 * n + d) \div (2 * d)

\* source-over compositing of src onto dst.
Over(src, dst) ==
    IF src[4] = 255 THEN src
    ELSE IF src[4] = 0 THEN dst
    ELSE IF dst[4] = 0 THEN src
    ELSE LET oa == src[4] * 255 + dst[4] * (255 - src[4])
             ch(k) == RoundDiv(src[k] * src[4] * 255 + dst[k] * dst[4] * (255 - src[4]), oa)
         IN  <<ch(1), ch(2), ch(3), RoundDiv(oa, 255)>>

\* The pixel a fillStyle string paints: 'TRANSPARENT' is the CSS keyword
\* transparent, any other color of the editor is a hex color.
FillStylePixel(color) ==
    IF color = TRANSPARENT \/ hexToRgb(color) = <<>> THEN Clear
    ELSE LET rgb == hexToRgb(color) IN <<rgb[1], rgb[2], rgb[3], 255>>

\* ctx.fillStyle = color; ctx.fillRect(x, y, w, h)
fillRect(s, color, x, y, w, h) ==
    [s EXCEPT !.data = [i \in 1..(s.w * s.h) |->
        LET px == (i - 1) % s.w
            py == (i - 1) \div s.w
        IN  IF px >= x /\ px < x + w /\ py >= y /\ py < y + h
            THEN Over(FillStylePixel(color), s.data[i])
            ELSE s.data[i]]]

\* A faulty variant of clearRect that clears nothing.
clearRectKeeps(s, x, y, w, h) == s

\* ctx.clearRect(x, y, w, h)
clearRect(s, x, y, w, h) ==
    [s EXCEPT !.data = [i \in 1..(s.w * s.h) |->
        LET px == (i - 1) % s.w
            py == (i - 1) \div s.w
        IN  IF px >= x /\ px < x + w /\ py >= y /\ py < y + h
            THEN Clear
            ELSE s.data[i]]]

\* ctx.getImageData(0, 0, w, h): a copy, transparent black outside the canvas.
getImageData(s, w, h) ==
    [w |-> w, h |-> h,
     data |-> [i \in 1..(w * h) |-> PixelAt(s, (i - 1) % w, (i - 1) \div w)]]

\* ctx.putImageData(img, 0, 0): overwrites, clipped to the canvas.
putImageData(s, img) ==
    [s EXCEPT !.data = [i \in 1..(s.w * s.h) |->
        LET px == (i - 1) % s.w
            py == (i - 1) \div s.w
        IN  IF InSurface(img, px, py) THEN Stored(PixelAt(img, px, py))
            ELSE s.data[i]]]

\* A faulty variant of drawImage that draws at the origin of the surface.
drawImageAtOrigin(s, src, dx, dy) ==
    [s EXCEPT !.data = [i \in 1..(s.w * s.h) |->
        IF InSurface(src, (i - 1) % s.w, (i - 1) \div s.w)
        THEN Over(PixelAt(src, (i - 1) % s.w, (i - 1) \div s.w), s.data[i])
        ELSE s.data[i]]]

\* ctx.drawImage(src, dx, dy): composites src with its origin at (dx, dy).
drawImage(s, src, dx, dy) ==
    [s EXCEPT !.data = [i \in 1..(s.w * s.h) |->
        LET px == (i - 1) % s.w
            py == (i - 1) \div s.w
        IN  IF InSurface(src, px - dx, py - dy)
            THEN Over(PixelAt(src, px - dx, py - dy), s.data[i])
            ELSE s.data[i]]]

\* ctx.drawImage(src, sx, sy, w, h, 0, 0, w, h): the source rectangle at scale 1.
drawImageRect(s, src, sx, sy, w, h) ==
    [s EXCEPT !.data = [i \in 1..(s.w * s.h) |->
        LET px == (i - 1) % s.w
            py == (i - 1) \div s.w
        IN  IF px < w /\ py < h /\ InSurface(src, px + sx, py + sy)
            THEN Over(PixelAt(src, px + sx, py + sy), s.data[i])
            ELSE s.data[i]]]

---------------------------------------------------------------------------
(* Rasterisation.                                                          *)

\* A faulty variant of the loop that never steps in x and y at once.
RECURSIVE LineLoopNoDiagonal(_, _, _, _, _, _, _, _, _)
LineLoopNoDiagonal(x0, y0, x1, y1, dx, dy, sx, sy, err) ==
    IF x0 = x1 /\ y0 = y1 THEN << <<x0, y0>> >>
    ELSE LET e2 == 2 * err
             stepX == e2 > -dy
             stepY == ~stepX /\ e2 < dx
             nx == IF stepX THEN x0 + sx ELSE x0
             ny == IF stepY THEN y0 + sy ELSE y0
             nerr == err - (IF stepX THEN dy ELSE 0) + (IF stepY THEN dx ELSE 0)
         IN  << <<x0, y0>> >> \o
             LineLoopNoDiagonal(nx, ny, x1, y1, dx, dy, sx, sy, nerr)

\* The loop of drawLine / drawLineOnContext: the points it plots, in order.
RECURSIVE LineLoop(_, _, _, _, _, _, _, _, _)
LineLoop(x0, y0, x1, y1, dx, dy, sx, sy, err) ==
    IF x0 = x1 /\ y0 = y1 THEN << <<x0, y0>> >>
    ELSE LET e2 == 2 * err
             stepX == e2 > -dy
             stepY == e2 < dx
             nx == IF stepX THEN x0 + sx ELSE x0
             ny == IF stepY THEN y0 + sy ELSE y0
             nerr == err - (IF stepX THEN dy ELSE 0) + (IF stepY THEN dx ELSE 0)
         IN  << <<x0, y0>> >> \o LineLoop(nx, ny, x1, y1, dx, dy, sx, sy, nerr)

LinePoints(x0, y0, x1, y1) ==
    LET dx == Abs(x1 - x0)
        dy == Abs(y1 - y0)
        sx == IF x0 < x1 THEN 1 ELSE -1
        sy == IF y0 < y1 THEN 1 ELSE -1
    IN  LineLoop(x0, y0, x1, y1, dx, dy, sx, sy, dx - dy)

\* fillRect(x, y, 1, 1) at each point of pts, in order.
RECURSIVE PlotAll(_, _, _)
PlotAll(s, color, pts) ==
    IF pts = <<>> THEN s
    ELSE PlotAll(fillRect(s, color, pts[1][1], pts[1][2], 1, 1), color, Tail(pts))

drawLineOnContext(s, x0, y0, x1, y1, color) ==
    PlotAll(s, color, LinePoints(x0, y0, x1, y1))

\* The points [lo..hi] x {y} and {x} x [lo..hi] as sequences.
RECURSIVE Row(_, _, _)
Row(lo, hi, y) == IF lo > hi THEN <<>> ELSE << <<lo, y>> >> \o Row(lo + 1, hi, y)
RECURSIVE Col(_, _, _)
Col(x, lo, hi) == IF lo > hi THEN <<>> ELSE << <<x, lo>> >> \o Col(x, lo + 1, hi)

drawRectangleOnContext(s, x0, y0, x1, y1, color, fill) ==
    LET minX == Min(x0, x1)
        minY == Min(y0, y1)
        maxX == Max(x0, x1)
        maxY == Max(y0, y1)
    IN  IF fill
        THEN fillRect(s, color, minX, minY, maxX - minX + 1, maxY - minY + 1)
        ELSE PlotAll(s, color, Row(minX, maxX, minY) \o Row(minX, maxX, maxY)
                               \o Col(minX, minY, maxY) \o Col(maxX, minY, maxY))

\* Math.round(Math.sqrt(n)) for a natural n.
RoundSqrt(n) ==
    CHOOSE r \in 0..(n + 1) :
        /\ 4 * n < (2 * r + 1) * (2 * r + 1)
        /\ (r = 0 \/ 4 * n >= (2 * r - 1) * (2 * r - 1))

\* The loop of drawCircleOnContext: the points it plots, in order.
RECURSIVE CircleLoop(_, _, _, _, _, _)
CircleLoop(x0, y0, x, y, err, fill) ==
    IF x < y THEN <<>>
    ELSE LET plotted ==
                 IF fill
                 THEN Row(x0 - x, x0 + x, y0 + y) \o Row(x0 - x, x0 + x, y0 - y)
                      \o Row(x0 - y, x0 + y, y0 + x) \o Row(x0 - y, x0 + y, y0 - x)
                 ELSE << <<x0 + x, y0 + y>>, <<x0 + y, y0 + x>>,
                         <<x0 - y, y0 + x>>, <<x0 - x, y0 + y>>,
                         <<x0 - x, y0 - y>>, <<x0 - y, y0 - x>>,
                         <<x0 + y, y0 - x>>, <<x0 + x, y0 - y>> >>
             y1 == IF err <= 0 THEN y + 1 ELSE y
             e1 == IF err <= 0 THEN err + 2 * y1 + 1 ELSE err
             x1 == IF e1 > 0 THEN x - 1 ELSE x
             e2 == IF e1 > 0 THEN e1 - (2 * x1 + 1) ELSE e1
         IN  plotted \o CircleLoop(x0, y0, x1, y1, e2, fill)

drawCircleOnContext(s, x0, y0, x1, y1, color, fill) ==
    LET radius == RoundSqrt((x1 - x0) * (x1 - x0) + (y1 - y0) * (y1 - y0))
    IN  PlotAll(s, color, CircleLoop(x0, y0, radius, 0, 0, fill))

\* The shape a tool draws on a context (drawShapePreview and the commit in
\* onMouseUp use the same routines).
ShapeOnContext(tool, s, x0, y0, x1, y1, color, fill) ==
    IF tool = "line" THEN drawLineOnContext(s, x0, y0, x1, y1, color)
    ELSE IF tool = "rectangle" THEN drawRectangleOnContext(s, x0, y0, x1, y1, color, fill)
    ELSE IF tool = "circle" THEN drawCircleOnContext(s, x0, y0, x1, y1, color, fill)
    ELSE s

---------------------------------------------------------------------------
(* Flood fill.                                                             *)

\* A faulty variant of the loop that never pushes the pixel above (cx, cy - 1).
RECURSIVE FillLoopNoUp(_, _, _, _, _, _, _)
FillLoopNoUp(pixels, w, h, stack, visited, start, paint) ==
    IF stack = <<>> THEN pixels
    ELSE LET top == stack[Len(stack)]
             rest == SubSeq(stack, 1, Len(stack) - 1)
             cx == top[1]
             cy == top[2]
         IN  IF top \in visited
                THEN FillLoopNoUp(pixels, w, h, rest, visited, start, paint)
             ELSE IF cx < 0 \/ cy < 0 \/ cx >= w \/ cy >= h
                THEN FillLoopNoUp(pixels, w, h, rest, visited, start, paint)
             ELSE IF pixels[cy * w + cx + 1] # start
                THEN FillLoopNoUp(pixels, w, h, rest, visited, start, paint)
             ELSE FillLoopNoUp([pixels EXCEPT ![cy * w + cx + 1] = paint], w, h,
                               rest \o << <<cx + 1, cy>>, <<cx - 1, cy>>,
                                          <<cx, cy + 1>> >>,
                               visited \cup {top}, start, paint)

\* The while loop of floodFill on the pixel array `pixels` of a w x h
\* ImageData: pops the last entry of the stack until the stack is empty.
RECURSIVE FillLoop(_, _, _, _, _, _, _)
FillLoop(pixels, w, h, stack, visited, start, paint) ==
    IF stack = <<>> THEN pixels
    ELSE LET top == stack[Len(stack)]
             rest == SubSeq(stack, 1, Len(stack) - 1)
             cx == top[1]
             cy == top[2]
         IN  IF top \in visited
                THEN FillLoop(pixels, w, h, rest, visited, start, paint)
             ELSE IF cx < 0 \/ cy < 0 \/ cx >= w \/ cy >= h
                THEN FillLoop(pixels, w, h, rest, visited, start, paint)
             ELSE IF pixels[cy * w + cx + 1] # start
                THEN FillLoop(pixels, w, h, rest, visited, start, paint)
             ELSE FillLoop([pixels EXCEPT ![cy * w + cx + 1] = paint], w, h,
                           rest \o << <<cx + 1, cy>>, <<cx - 1, cy>>,
                                      <<cx, cy + 1>>, <<cx, cy - 1>> >>,
                           visited \cup {top}, start, paint)

\* A faulty variant of the early returns: only the bounds check is left.
FillRunsInBounds(s, w, h, x, y, fillColor) ==
    ~(x < 0 \/ y < 0 \/ x >= w \/ y >= h)

\* Whether floodFill(x, y, fillColor) passes its early returns on the layer
\* canvas s, with the editor canvas w x h.
FillRuns(s, w, h, x, y, fillColor) ==
    /\ ~(x < 0 \/ y < 0 \/ x >= w \/ y >= h)
    /\ LET img == getImageData(s, w, h)
           start == img.data[y * w + x + 1]
       IN  IF fillColor # TRANSPARENT
           THEN LET fillRgb == hexToRgb(fillColor)
                IN  ~(start[1] = fillRgb[1] /\ start[2] = fillRgb[2]
                      /\ start[3] = fillRgb[3] /\ start[4] = 255)
           ELSE ~(start[4] < 128)

\* The layer canvas after floodFill(x, y, fillColor) got past its early
\* returns: getImageData, the loop, putImageData.
FillResult(s, w, h, x, y, fillColor) ==
    LET img == getImageData(s, w, h)
        start == img.data[y * w + x + 1]
        paint == IF fillColor = TRANSPARENT THEN <<0, 0, 0, 0>>
                 ELSE LET fillRgb == hexToRgb(fillColor)
                      IN  <<fillRgb[1], fillRgb[2], fillRgb[3], 255>>
        filled == FillLoop(img.data, w, h, << <<x, y>> >>, {}, start, paint)
    IN  putImageData(s, [img EXCEPT !.data = filled])

\* A faulty variant of floodFill: where floodFill returns early on a start
\* pixel that needs no fill, this one fills the region with the other kind
\* of paint (erases a region of the fill color, blackens a transparent one).
floodFillToggle(s, w, h, x, y, fillColor) ==
    IF FillRuns(s, w, h, x, y, fillColor)
    THEN FillResult(s, w, h, x, y, fillColor)
    ELSE IF x < 0 \/ y < 0 \/ x >= w \/ y >= h THEN s
    ELSE FillResult(s, w, h, x, y,
                    IF fillColor = TRANSPARENT THEN Black ELSE TRANSPARENT)

\* The layer canvas after a call of floodFill(x, y, fillColor).
floodFill(s, w, h, x, y, fillColor) ==
    IF FillRuns(s, w, h, x, y, fillColor)
    THEN FillResult(s, w, h, x, y, fillColor)
    ELSE s

---------------------------------------------------------------------------
(* Layers, composition and the history.                                    *)

\* A layer object: the canvas is the layer's own canvas element.
NewLayer(id, name, w, h) ==
    [id |-> id, name |-> name, visible |-> TRUE, canvas |-> NewSurface(w, h)]

\* Date.now() in addLayer: a time stamp later than the id of every layer.
RECURSIVE MaxId(_)
MaxId(ls) == IF ls = <<>> THEN 1 ELSE Max(ls[1].id, MaxId(Tail(ls)))
DateNow(ls) == MaxId(ls) + 1

\* A faulty variant of the loop of composeLayers that draws every layer,
\* hidden or not.
RECURSIVE ComposeOntoAll(_, _)
ComposeOntoAll(s, ls) ==
    IF ls = <<>> THEN s
    ELSE ComposeOntoAll(drawImage(s, ls[1].canvas, 0, 0), Tail(ls))

\* composeLayers: the pixels of this.canvas afterwards.
RECURSIVE ComposeOnto(_, _)
ComposeOnto(s, ls) ==
    IF ls = <<>> THEN s
    ELSE ComposeOnto(IF ls[1].visible THEN drawImage(s, ls[1].canvas, 0, 0) ELSE s,
                     Tail(ls))
composeLayers(ls, w, h) == ComposeOnto(NewSurface(w, h), ls)

\* The state object saveHistory builds.
Snapshot(ls, cli, w, h) ==
    [layers |-> [i \in 1..Len(ls) |->
                    [id |-> ls[i].id, name |-> ls[i].name, visible |-> ls[i].visible,
                     imageData |-> getImageData(ls[i].canvas, w, h)]],
     currentLayerIndex |-> cli]

\* Faulty variants of saveHistory: one that never drops the oldest snapshot,
\* one that keeps the snapshots after the cursor, one that overwrites the
\* snapshot at the cursor, and one that pushes the snapshot twice.
saveHistoryUnbounded(h, hi, ls, cli, cw, ch) ==
    [history |-> Append(SubSeq(h, 1, hi + 1), Snapshot(ls, cli, cw, ch)),
     historyIndex |-> hi + 1]

saveHistoryKeepsRedo(h, hi, ls, cli, cw, ch) ==
    LET pushed == Append(h, Snapshot(ls, cli, cw, ch))
    IN  IF Len(pushed) > maxHistory
        THEN [history |-> Tail(pushed), historyIndex |-> hi]
        ELSE [history |-> pushed, historyIndex |-> hi + 1]

saveHistoryOverwrites(h, hi, ls, cli, cw, ch) ==
    IF hi < 0
    THEN [history |-> <<Snapshot(ls, cli, cw, ch)>>, historyIndex |-> 0]
    ELSE [history |-> Append([SubSeq(h, 1, hi + 1) EXCEPT ![hi + 1] =
                                  Snapshot(ls, cli, cw, ch)],
                             Snapshot(ls, cli, cw, ch)),
          historyIndex |-> hi + 1]

saveHistoryTwice(h, hi, ls, cli, cw, ch) ==
    LET pushed == Append(Append(SubSeq(h, 1, hi + 1), Snapshot(ls, cli, cw, ch)),
                         Snapshot(ls, cli, cw, ch))
    IN  [history |-> pushed, historyIndex |-> Len(pushed) - 1]

\* saveHistory: the history and the cursor afterwards.
saveHistory(h, hi, ls, cli, cw, ch) ==
    LET pushed == Append(SubSeq(h, 1, hi + 1), Snapshot(ls, cli, cw, ch))
    IN  IF Len(pushed) > maxHistory
        THEN [history |-> Tail(pushed), historyIndex |-> hi]
        ELSE [history |-> pushed, historyIndex |-> hi + 1]

\* restoreHistory: the layers rebuilt from a state object, each on a canvas
\* of the editor canvas' current size.
restoreHistory(state, cw, ch) ==
    [i \in 1..Len(state.layers) |->
        [id |-> state.layers[i].id, name |-> state.layers[i].name,
         visible |-> state.layers[i].visible,
         canvas |-> putImageData(NewSurface(cw, ch), state.layers[i].imageData)]]

\* setupPalette(colors): this.palette afterwards, and the primary color it
\* leaves (the first palette color, if there is one).
setupPalette(colors) == [i \in 1..Len(colors) |-> toUpperCase(colors[i])]
DefaultPrimary(pal, old) == IF Len(pal) > 0 THEN toUpperCase(pal[1]) ELSE old

\* The pixel loop of replaceColor on one layer canvas.
ReplaceOnCanvas(s, w, h, oldRgb, newRgb) ==
    LET img == getImageData(s, w, h)
        replaced == [i \in 1..(w * h) |->
                        LET p == img.data[i]
                        IN  IF p[4] >= 128 /\ p[1] = oldRgb[1] /\ p[2] = oldRgb[2]
                               /\ p[3] = oldRgb[3]
                            THEN <<newRgb[1], newRgb[2], newRgb[3], p[4]>>
                            ELSE p]
    IN  putImageData(s, [img EXCEPT !.data = replaced])

\* The palette replaceColor hands to setupPalette.
ReplacedPalette(pal, oldColor, newColor) ==
    LET kept == SelectSeq(pal, LAMBDA c : toUpperCase(c) # toUpperCase(oldColor))
    IN  IF \E i \in 1..Len(kept) : kept[i] = toUpperCase(newColor)
        THEN kept
        ELSE Append(kept, toUpperCase(newColor))

\* A faulty variant of WithActive that writes to the bottom layer.
WithBottom(ls, cli, s) == [ls EXCEPT ![1].canvas = s]

\* The layers with the canvas of the active layer replaced.
WithActive(ls, cli, s) == [ls EXCEPT ![cli + 1].canvas = s]

\* drawPixel / erasePixel: the layers afterwards.
drawPixel(ls, cli, cw, ch, x, y, color) ==
    IF x < 0 \/ y < 0 \/ x >= cw \/ y >= ch THEN ls
    ELSE WithActive(ls, cli, fillRect(ls[cli + 1].canvas, color, x, y, 1, 1))

erasePixel(ls, cli, cw, ch, x, y) ==
    IF x < 0 \/ y < 0 \/ x >= cw \/ y >= ch THEN ls
    ELSE WithActive(ls, cli, clearRect(ls[cli + 1].canvas, x, y, 1, 1))

\* drawLine: drawPixel or erasePixel at each point of the line, in order.
RECURSIVE DrawPoints(_, _, _, _, _, _, _)
DrawPoints(ls, cli, cw, ch, pts, color, isEraser) ==
    IF pts = <<>> THEN ls
    ELSE DrawPoints(IF isEraser
                    THEN erasePixel(ls, cli, cw, ch, pts[1][1], pts[1][2])
                    ELSE drawPixel(ls, cli, cw, ch, pts[1][1], pts[1][2], color),
                    cli, cw, ch, Tail(pts), color, isEraser)

drawLine(ls, cli, cw, ch, x0, y0, x1, y1, color, isEraser) ==
    DrawPoints(ls, cli, cw, ch, LinePoints(x0, y0, x1, y1), color, isEraser)

\* pickColor: the primary color afterwards.
pickColor(ls, cw, ch, x, y, old) ==
    IF x < 0 \/ y < 0 \/ x >= cw \/ y >= ch THEN old
    ELSE LET p == PixelAt(composeLayers(ls, cw, ch), x, y)
         IN  IF p[4] < 128 THEN TRANSPARENT
             ELSE toUpperCase(rgbToHex(p[1], p[2], p[3]))

---------------------------------------------------------------------------
(* The lasso.                                                              *)

\* isPointInLasso: ray casting over the edges (j, i) in the loop's order;
\* the comparison px < (xj - xi) * (py - yi) / (yj - yi) + xi is made on
\* integers, multiplied out by yj - yi.
EdgeCrosses(pi, pj, px, py) ==
    /\ (pi.y > py) # (pj.y > py)
    /\ LET d == pj.y - pi.y
           lhs == (px - pi.x) * d
           rhs == (pj.x - pi.x) * (py - pi.y)
       IN  IF d > 0 THEN lhs < rhs ELSE lhs > rhs

isPointInLasso(pts, px, py) ==
    IF Len(pts) < 3 THEN FALSE
    ELSE LET n == Len(pts)
             crossing == {i \in 1..n :
                             EdgeCrosses(pts[i], pts[IF i = 1 THEN n ELSE i - 1], px, py)}
         IN  Cardinality(crossing) % 2 = 1

RECURSIVE MinOf(_)
MinOf(xs) == IF Len(xs) = 1 THEN xs[1] ELSE Min(xs[1], MinOf(Tail(xs)))
RECURSIVE MaxOf(_)
MaxOf(xs) == IF Len(xs) = 1 THEN xs[1] ELSE Max(xs[1], MaxOf(Tail(xs)))

\* The clipped bounding box extractLassoContent computes.
LassoBox(pts, cw, ch) ==
    LET xs == [i \in 1..Len(pts) |-> pts[i].x]
        ys == [i \in 1..Len(pts) |-> pts[i].y]
        minX == Max(0, MinOf(xs))
        minY == Max(0, MinOf(ys))
        maxX == Min(cw - 1, MaxOf(xs))
        maxY == Min(ch - 1, MaxOf(ys))
    IN  [minX |-> minX, minY |-> minY,
         width |-> maxX - minX + 1, height |-> maxY - minY + 1]

\* contentCtx.createImageData(width, height) throws an IndexSizeError when
\* the width or the height is zero: extractLassoContent ends there, after
\* onMouseUp has reset isDrawing and before anything else is written.
extractLassoContentThrows(pts, cw, ch) ==
    /\ Len(pts) >= 3
    /\ \/ LassoBox(pts, cw, ch).width = 0
       \/ LassoBox(pts, cw, ch).height = 0

\* extractLassoContent runs to its end.
LassoExtracts(pts, cw, ch) ==
    /\ Len(pts) >= 3
    /\ ~extractLassoContentThrows(pts, cw, ch)

\* contentCanvas.width = width, contentCanvas.height = height: a canvas
\* given a size below zero takes the default size.
DefaultCanvasWidth == 300
DefaultCanvasHeight == 150
ContentSurface(width, height) ==
    NewSurface(IF width < 0 THEN DefaultCanvasWidth ELSE width,
               IF height < 0 THEN DefaultCanvasHeight ELSE height)

\* A faulty variant of extractLassoContent that copies the selected pixels
\* and leaves them on the layer.
extractLassoContentCopies(s, pts, cw, ch) ==
    LET box == LassoBox(pts, cw, ch)
        img == getImageData(s, cw, ch)
        contentData ==
            [i \in 1..(box.width * box.height) |->
                LET x == box.minX + ((i - 1) % box.width)
                    y == box.minY + ((i - 1) \div box.width)
                IN  IF isPointInLasso(pts, x, y) THEN img.data[y * cw + x + 1] ELSE Clear]
    IN  [content |-> [x |-> box.minX, y |-> box.minY,
                      canvas |-> putImageData(NewSurface(box.width, box.height),
                                              [w |-> box.width, h |-> box.height,
                                               data |-> contentData])],
         canvas |-> s]

\* The floating content and the layer canvas extractLassoContent leaves.
\* With a width or a height below zero the loops over the box have no
\* iteration: the content is empty and the layer keeps its pixels.
extractLassoContent(s, pts, cw, ch) ==
    LET box == LassoBox(pts, cw, ch)
        img == getImageData(s, cw, ch)
        empty == box.width < 0 \/ box.height < 0
        inside(x, y) == isPointInLasso(pts, x, y)
        contentData ==
            [i \in 1..(box.width * box.height) |->
                LET x == box.minX + ((i - 1) % box.width)
                    y == box.minY + ((i - 1) \div box.width)
                IN  IF inside(x, y) THEN img.data[y * cw + x + 1] ELSE Clear]
        cleared ==
            [i \in 1..(cw * ch) |->
                LET x == (i - 1) % cw
                    y == (i - 1) \div cw
                IN  IF /\ x >= box.minX /\ x < box.minX + box.width
                       /\ y >= box.minY /\ y < box.minY + box.height
                       /\ inside(x, y)
                    THEN <<img.data[i][1], img.data[i][2], img.data[i][3], 0>>
                    ELSE img.data[i]]
    IN  [content |-> [x |-> box.minX, y |-> box.minY,
                      canvas |-> IF empty THEN ContentSurface(box.width, box.height)
                                 ELSE putImageData(NewSurface(box.width, box.height),
                                                   [w |-> box.width, h |-> box.height,
                                                    data |-> contentData])],
         canvas |-> IF empty THEN putImageData(s, img)
                    ELSE putImageData(s, [img EXCEPT !.data = cleared])]

---------------------------------------------------------------------------
(* Color analysis.                                                         *)

\* A Map from colors to pixel counts is the sequence of its entries
\* [color, count] in insertion order.
MapKeys(cm) == [i \in 1..Len(cm) |-> cm[i].color]

\* A faulty variant of the pixel loop that skips only the pixels of alpha 0.
RECURSIVE CountLoopAnyAlpha(_, _, _, _)
CountLoopAnyAlpha(pixels, i, last, cm) ==
    IF i > last THEN cm
    ELSE LET p == pixels[i]
             hex == rgbToHex(p[1], p[2], p[3])
         IN  IF p[4] = 0 THEN CountLoopAnyAlpha(pixels, i + 1, last, cm)
             ELSE IF \E k \in 1..Len(cm) : cm[k].color = hex
             THEN LET at == CHOOSE k \in 1..Len(cm) : cm[k].color = hex
                  IN  CountLoopAnyAlpha(pixels, i + 1, last,
                                        [cm EXCEPT ![at].count = @ + 1])
             ELSE CountLoopAnyAlpha(pixels, i + 1, last,
                                    Append(cm, [color |-> hex, count |-> 1]))

\* The pixel loop of analyzeImage over the pixels i..last, with the
\* colorMap cm built so far: colorMap.set(hex, (colorMap.get(hex) || 0) + 1)
\* for every pixel of alpha 128 or more.
RECURSIVE CountLoop(_, _, _, _)
CountLoop(pixels, i, last, cm) ==
    IF i > last THEN cm
    ELSE LET p == pixels[i]
             hex == rgbToHex(p[1], p[2], p[3])
         IN  IF p[4] < 128 THEN CountLoop(pixels, i + 1, last, cm)
             ELSE IF \E k \in 1..Len(cm) : cm[k].color = hex
             THEN LET at == CHOOSE k \in 1..Len(cm) : cm[k].color = hex
                  IN  CountLoop(pixels, i + 1, last, [cm EXCEPT ![at].count = @ + 1])
             ELSE CountLoop(pixels, i + 1, last,
                            Append(cm, [color |-> hex, count |-> 1]))

\* The same loop taken one pixel row at a time, from row y on (the order of
\* the pixels is the one of the flat loop).
RECURSIVE CountRows(_, _, _, _)
CountRows(pixels, w, y, cm) ==
    IF y * w >= Len(pixels) THEN cm
    ELSE LET row == CountLoop(pixels, y * w + 1, Min(Len(pixels), (y + 1) * w), cm)
         \* a row without a counted pixel leaves the map as it was
         IN  IF row = cm THEN CountRows(pixels, w, y + 1, cm)
             ELSE CountRows(pixels, w, y + 1, row)

\* colorDistance(rgb1, rgb2) < threshold: the Euclidean distance is the
\* square root of an integer, so for an integer threshold the comparison is
\* the one of the squares.
colorDistanceBelow(rgb1, rgb2, threshold) ==
    /\ threshold > 0
    /\ (rgb1[1] - rgb2[1]) * (rgb1[1] - rgb2[1])
         + (rgb1[2] - rgb2[2]) * (rgb1[2] - rgb2[2])
         + (rgb1[3] - rgb2[3]) * (rgb1[3] - rgb2[3]) < threshold * threshold

\* Array.prototype.sort((a, b) => b[1] - a[1]): stable, by descending count.
RECURSIVE SortByCount(_)
SortByCount(cm) ==
    IF cm = <<>> THEN <<>>
    ELSE LET rest == SortByCount(SubSeq(cm, 1, Len(cm) - 1))
             e == cm[Len(cm)]
             \* e goes behind every entry whose count is not smaller
             k == Cardinality({i \in 1..Len(rest) : rest[i].count >= e.count})
         IN  SubSeq(rest, 1, k) \o <<e>> \o SubSeq(rest, k + 1, Len(rest))

\* A faulty variant of the loop of quantizeColors that never stops at 15.
RECURSIVE QuantLoopNoCap(_, _, _, _, _)
QuantLoopNoCap(colors, k, pal, used, threshold) ==
    IF k > Len(colors) THEN pal
    ELSE LET color == colors[k].color
         IN  IF color \in used
             THEN QuantLoopNoCap(colors, k + 1, pal, used, threshold)
             ELSE LET similar == {colors[i].color : i \in
                                    {j \in 1..Len(colors) :
                                       /\ colors[j].color \notin used
                                       /\ colors[j].color # color
                                       /\ colorDistanceBelow(hexToRgb(color),
                                                             hexToRgb(colors[j].color),
                                                             threshold)}}
                  IN  QuantLoopNoCap(colors, k + 1, Append(pal, color),
                                     used \cup similar \cup {color}, threshold)

\* The loop of quantizeColors over the sorted entries, from entry k on.
RECURSIVE QuantLoop(_, _, _, _, _)
QuantLoop(colors, k, pal, used, threshold) ==
    IF k > Len(colors) THEN pal
    ELSE LET color == colors[k].color
         IN  IF color \in used
             THEN QuantLoop(colors, k + 1, pal, used, threshold)
             ELSE LET similar == {colors[i].color : i \in
                                    {j \in 1..Len(colors) :
                                       /\ colors[j].color \notin used
                                       /\ colors[j].color # color
                                       /\ colorDistanceBelow(hexToRgb(color),
                                                             hexToRgb(colors[j].color),
                                                             threshold)}}
                      pal2 == Append(pal, color)
                  IN  IF Len(pal2) >= 15 THEN pal2
                      ELSE QuantLoop(colors, k + 1, pal2,
                                     used \cup similar \cup {color}, threshold)

\* A faulty variant of quantizeColors that takes the entries in the order
\* of the map.
quantizeColorsUnsorted(cm, threshold) == QuantLoop(cm, 1, <<>>, {}, threshold)

\* quantizeColors(colorMap, threshold)
quantizeColors(cm, threshold) == QuantLoop(SortByCount(cm), 1, <<>>, {}, threshold)

\* A faulty variant of analyzeImage that quantizes whatever the number of
\* colors is.
analyzeImageAlways(img, quantize, threshold) ==
    LET canvas == drawImage(NewSurface(img.w, img.h), img, 0, 0)
        pixels == getImageData(canvas, img.w, img.h).data
        colorMap == CountRows(pixels, Max(img.w, 1), 0, <<>>)
    IN  [width |-> img.w, height |-> img.h,
         colors |-> IF quantize THEN quantizeColors(colorMap, threshold)
                    ELSE MapKeys(colorMap),
         colorMap |-> colorMap,
         originalColorCount |-> Len(colorMap)]

\* analyzeImage(imageElement, quantize, threshold): the value its promise
\* resolves with.
analyzeImage(img, quantize, threshold) ==
    LET canvas == drawImage(NewSurface(img.w, img.h), img, 0, 0)
        pixels == getImageData(canvas, img.w, img.h).data
        colorMap == CountRows(pixels, Max(img.w, 1), 0, <<>>)
        keys == MapKeys(colorMap)
    IN  [width |-> img.w, height |-> img.h,
         colors |-> IF quantize /\ Len(keys) > 15
                    THEN quantizeColors(colorMap, threshold) ELSE keys,
         colorMap |-> colorMap,
         originalColorCount |-> Len(colorMap)]

\* Math.round((matches / n) * 100); the quotient 0 / 0 is NaN, and so is its
\* rounded value.  NaN is no integer: it is written here as a number that no
\* percentage equals.
NaN == -1
RoundPercent(matches, n) == IF n = 0 THEN NaN ELSE RoundDiv(100 * matches, n)

\* Array.prototype.includes
Includes(seq, x) == \E i \in 1..Len(seq) : seq[i] = x

\* calculatePaletteMatch(imagePalette) with this.loadedPalette = loaded.
calculatePaletteMatch(imagePalette, loaded) ==
    IF Len(loaded) = 0 THEN 0
    ELSE LET Matches(color) ==
                 \/ Includes(loaded, toUpperCase(color))
                 \/ \E i \in 1..Len(loaded) :
                       colorDistanceBelow(hexToRgb(color), hexToRgb(loaded[i]), 20)
             matches == Cardinality({i \in 1..Len(imagePalette) :
                                        Matches(imagePalette[i])})
         IN  RoundPercent(matches, Len(imagePalette))

---------------------------------------------------------------------------
(* The asset list.                                                         *)

\* manager.updateMasterPalette(colors): the master palette afterwards.
RECURSIVE updateMasterPalette(_, _)
updateMasterPalette(mp, colors) ==
    IF colors = <<>> THEN mp
    ELSE updateMasterPalette(IF Includes(mp, colors[1]) THEN mp
                             ELSE Append(mp, colors[1]),
                             Tail(colors))

\* The image record manager.addImage(imageData) builds, with
\* manager.currentFolder = folder.
ImageRecord(data, folder) ==
    [name |-> data.name, dataUrl |-> data.dataUrl,
     width |-> data.width, height |-> data.height,
     colors |-> data.colors, colorCount |-> Len(data.colors),
     palette |-> data.colors, colorMap |-> data.colorMap, folder |-> folder]

---------------------------------------------------------------------------
(* Inputs.                                                                 *)

Opaque(rgb) == <<rgb[1], rgb[2], rgb[3], 255>>
BlackPx == Opaque(hexToRgb(Black))
WhitePx == Opaque(hexToRgb(White))

\* The decoded pixels of an image record: ImgW x ImgH, the first pixel
\* black, the others transparent.
ImagePixels ==
    [w |-> ImgW, h |-> ImgH,
     data |-> [i \in 1..(ImgW * ImgH) |-> IF i = 1 THEN BlackPx ELSE Clear]]

\* The image records the manager hands to loadImage: width, height, the
\* decoded dataUrl and the palette (the colors as save() stored them).
Images ==
    {[width |-> ImgW, height |-> ImgH, dataUrl |-> ImagePixels,
      palette |-> <<toUpperCase(rgbToHex(0, 0, 0))>>]}

\* Canvas coordinates of the mouse events of the drawing tools: the rows of
\* the canvas, from its first pixel to one pixel right of it.
Points == {<<x, y>> : x \in 0..ImgW, y \in 0..(ImgH - 1)}

\* The pointer paths of the lasso drags: a triangle around the first pixel
\* of the canvas.
LassoPaths == { << <<-1, -1>>, <<ImgW, -1>>, <<-1, ImgH>> >> }

\* Whether the lasso points pts are the start of one of the lasso paths.
OnLassoPath(pts) ==
    \E path \in LassoPaths :
        /\ Len(pts) <= Len(path)
        /\ \A i \in 1..Len(pts) : pts[i] = [x |-> path[i][1], y |-> path[i][2]]

\* The colors of the master palette (the keys of manager.paletteColorNames).
MasterPalette == {Black}

\* The colors the user sets with the color input or the palettes.
UserColors == {Black, TRANSPARENT}

Tools == {"pencil", "eraser", "line", "rectangle", "circle",
          "fill", "picker", "lasso", "crop"}

CropHandles == {"nw", "n", "ne", "e", "se", "s", "sw", "w"}

---------------------------------------------------------------------------
(* The server (server.js): its file system and its HTTP endpoints.  A path *)
(* is the sequence of its segments from the root of the file system.       *)

\* __dirname and PIXEL_ASSETS_DIR
Dirname == <<"app">>
PIXEL_ASSETS_DIR == Dirname \o <<"PixelAssets">>

\* path.join(base, rel), rel given by its segments: '..' steps to the parent.
RECURSIVE join(_, _)
join(base, rel) ==
    IF rel = <<>> THEN base
    ELSE IF rel[1] = ".."
    THEN join(IF base = <<>> THEN base ELSE SubSeq(base, 1, Len(base) - 1), Tail(rel))
    ELSE join(Append(base, rel[1]), Tail(rel))

Parent(p) == SubSeq(p, 1, Len(p) - 1)

\* fs.existsSync(p)
existsSync(d, p) == p \in DOMAIN d

IsDir(d, p) == p = <<>> \/ (p \in DOMAIN d /\ d[p] = "dir")
IsFile(d, p) == p \in DOMAIN d /\ d[p] # "dir"

\* The file system d with the entry p set to c.
WithEntry(d, p, c) == [q \in DOMAIN d \cup {p} |-> IF q = p THEN c ELSE d[q]]
\* The file system d without the entry p.
WithoutEntry(d, p) == [q \in DOMAIN d \ {p} |-> d[q]]

\* The fs calls of the handlers: [ok |-> the call returned, disk |-> the
\* file system it leaves]; a call that throws leaves the file system as it
\* was (the handler's catch answers 500).

\* fs.mkdirSync(p, { recursive: true })
mkdirSync(d, p) ==
    IF \E n \in 1..Len(p) : IsFile(d, SubSeq(p, 1, n))
    THEN [ok |-> FALSE, disk |-> d]
    ELSE [ok |-> TRUE,
          disk |-> [q \in DOMAIN d \cup {SubSeq(p, 1, n) : n \in 1..Len(p)} |->
                       IF q \in DOMAIN d THEN d[q] ELSE "dir"]]

\* fs.writeFileSync(p, data)
writeFileSync(d, p, data) ==
    IF IsDir(d, Parent(p)) /\ ~IsDir(d, p)
    THEN [ok |-> TRUE, disk |-> WithEntry(d, p, data)]
    ELSE [ok |-> FALSE, disk |-> d]

\* fs.unlinkSync(p)
unlinkSync(d, p) ==
    IF IsFile(d, p) THEN [ok |-> TRUE, disk |-> WithoutEntry(d, p)]
    ELSE [ok |-> FALSE, disk |-> d]

\* fs.renameSync(from, to) of a file: it replaces a file at `to`.
renameSync(d, from, to) ==
    IF IsFile(d, from) /\ IsDir(d, Parent(to)) /\ ~IsDir(d, to)
    THEN [ok |-> TRUE,
          disk |-> IF from = to THEN d
                   ELSE WithoutEntry(WithEntry(d, to, d[from]), from)]
    ELSE [ok |-> FALSE, disk |-> d]

\* fs.copyFileSync(from, to)
copyFileSync(d, from, to) ==
    IF IsFile(d, from) /\ IsDir(d, Parent(to)) /\ ~IsDir(d, to)
    THEN [ok |-> TRUE, disk |-> WithEntry(d, to, d[from])]
    ELSE [ok |-> FALSE, disk |-> d]

\* targetDir of the handlers: PIXEL_ASSETS_DIR, or path.join of it and the
\* folder of the request when that is not empty.
TargetDir(folder) ==
    IF folder # <<>> THEN join(PIXEL_ASSETS_DIR, folder) ELSE PIXEL_ASSETS_DIR

\* A data URL as its media type and its base64 text; dataUrl.match(
\* /^data:image\/png;base64,(.+)$/) and Buffer.from(matches[1], 'base64').
DataUrlMatches(dataUrl) == dataUrl.type = "image/png;base64" /\ dataUrl.text # ""
BufferFrom(text) == IF text = "bmV3" THEN "new" ELSE "bytes"

\* The responses.
Ok(message) == <<[success |-> TRUE, message |-> message]>>
Failed(status) == <<[success |-> FALSE, status |-> status]>>

\* The files and folders scanDirectory / scanFolders list below dir.
PngsBelow(d, dir) ==
    {q \in DOMAIN d : Len(q) > Len(dir) /\ SubSeq(q, 1, Len(dir)) = dir /\ IsFile(d, q)}
FoldersBelow(d, dir) ==
    {q \in DOMAIN d : Len(q) > Len(dir) /\ SubSeq(q, 1, Len(dir)) = dir /\ IsDir(d, q)}

\* GET /api/images
getImages ==
    /\ response' = IF ~existsSync(disk, PIXEL_ASSETS_DIR) THEN Failed(200)
                   ELSE <<[success |-> TRUE, images |-> PngsBelow(disk, PIXEL_ASSETS_DIR)]>>
    /\ UNCHANGED disk

\* GET /api/folders
getFolders ==
    /\ response' = <<[success |-> TRUE,
                      folders |-> IF existsSync(disk, PIXEL_ASSETS_DIR)
                                  THEN FoldersBelow(disk, PIXEL_ASSETS_DIR) ELSE {}]>>
    /\ UNCHANGED disk

\* POST /api/save-image
saveImage(filename, dataUrl, folder) ==
    IF filename = "" \/ dataUrl = <<>> THEN response' = Failed(400) /\ UNCHANGED disk
    ELSE IF ~DataUrlMatches(dataUrl[1]) THEN response' = Failed(400) /\ UNCHANGED disk
    ELSE LET targetDir == TargetDir(folder)
             made == IF folder # <<>> /\ ~existsSync(disk, targetDir)
                     THEN mkdirSync(disk, targetDir)
                     ELSE [ok |-> TRUE, disk |-> disk]
             written == writeFileSync(made.disk, join(targetDir, <<filename>>),
                                      BufferFrom(dataUrl[1].text))
         IN  IF ~made.ok THEN response' = Failed(500) /\ UNCHANGED disk
             ELSE /\ disk' = written.disk
                  /\ response' = IF written.ok THEN Ok("File saved successfully")
                                 ELSE Failed(500)

\* DELETE /api/delete-image and POST /api/delete-image
deleteImage(filename, folder) ==
    IF filename = "" THEN response' = Failed(400) /\ UNCHANGED disk
    ELSE LET filePath == join(TargetDir(folder), <<filename>>)
             gone == unlinkSync(disk, filePath)
         IN  IF ~existsSync(disk, filePath) THEN response' = Failed(404) /\ UNCHANGED disk
             ELSE /\ disk' = gone.disk
                  /\ response' = IF gone.ok THEN Ok("File deleted successfully")
                                 ELSE Failed(500)

\* POST /api/create-folder
createFolder(folderName, parentFolder) ==
    IF folderName = "" THEN response' = Failed(400) /\ UNCHANGED disk
    ELSE LET newFolderPath == join(TargetDir(parentFolder), <<folderName>>)
             made == mkdirSync(disk, newFolderPath)
         IN  IF existsSync(disk, newFolderPath) THEN response' = Failed(400) /\ UNCHANGED disk
             ELSE /\ disk' = made.disk
                  /\ response' = IF made.ok THEN Ok("Folder created successfully")
                                 ELSE Failed(500)

\* POST /api/move-image
moveImage(filename, fromFolder, toFolder) ==
    IF filename = "" THEN response' = Failed(400) /\ UNCHANGED disk
    ELSE LET sourcePath == join(TargetDir(fromFolder), <<filename>>)
             destDir == TargetDir(toFolder)
             made == IF toFolder # <<>> /\ ~existsSync(disk, destDir)
                     THEN mkdirSync(disk, destDir)
                     ELSE [ok |-> TRUE, disk |-> disk]
             moved == renameSync(made.disk, sourcePath, join(destDir, <<filename>>))
         IN  IF ~existsSync(disk, sourcePath) THEN response' = Failed(404) /\ UNCHANGED disk
             ELSE IF ~made.ok THEN response' = Failed(500) /\ UNCHANGED disk
             ELSE /\ disk' = moved.disk
                  /\ response' = IF moved.ok THEN Ok("File moved successfully")
                                 ELSE Failed(500)

\* A faulty variant of the rename handler without the test of the
\* destination.
renameImageOverwrites(oldFilename, newFilename, folder) ==
    IF oldFilename = "" \/ newFilename = ""
    THEN response' = Failed(400) /\ UNCHANGED disk
    ELSE LET oldPath == join(TargetDir(folder), <<oldFilename>>)
             newPath == join(TargetDir(folder), <<newFilename>>)
             renamed == renameSync(disk, oldPath, newPath)
         IN  IF ~existsSync(disk, oldPath) THEN response' = Failed(404) /\ UNCHANGED disk
             ELSE /\ disk' = renamed.disk
                  /\ response' = IF renamed.ok THEN Ok("File renamed successfully")
                                 ELSE Failed(500)

\* POST /api/rename-image
renameImage(oldFilename, newFilename, folder) ==
    IF oldFilename = "" \/ newFilename = "" THEN response' = Failed(400) /\ UNCHANGED disk
    ELSE LET oldPath == join(TargetDir(folder), <<oldFilename>>)
             newPath == join(TargetDir(folder), <<newFilename>>)
             renamed == renameSync(disk, oldPath, newPath)
         IN  IF ~existsSync(disk, oldPath) THEN response' = Failed(404) /\ UNCHANGED disk
             ELSE IF existsSync(disk, newPath) THEN response' = Failed(409) /\ UNCHANGED disk
             ELSE /\ disk' = renamed.disk
                  /\ response' = IF renamed.ok THEN Ok("File renamed successfully")
                                 ELSE Failed(500)

\* POST /api/copy-image
copyImage(sourceFilename, destFilename, folder) ==
    IF sourceFilename = "" \/ destFilename = ""
    THEN response' = Failed(400) /\ UNCHANGED disk
    ELSE LET sourcePath == join(TargetDir(folder), <<sourceFilename>>)
             destPath == join(TargetDir(folder), <<destFilename>>)
             copied == copyFileSync(disk, sourcePath, destPath)
         IN  IF ~existsSync(disk, sourcePath) THEN response' = Failed(404) /\ UNCHANGED disk
             ELSE IF existsSync(disk, destPath) THEN response' = Failed(409) /\ UNCHANGED disk
             ELSE /\ disk' = copied.disk
                  /\ response' = IF copied.ok THEN Ok("File copied successfully")
                                 ELSE Failed(500)

\* POST /api/save-assignment-data
saveAssignmentData(data) ==
    LET written == writeFileSync(disk, join(Dirname, <<"level-assignments.json">>),
                                 data)
    IN  /\ disk' = written.disk
        /\ response' = IF written.ok THEN Ok("Assignment data saved") ELSE Failed(500)

\* The files the server starts with: itself, and the asset directory with
\* one image.
ServerDisk ==
    LET entries == {<<Dirname, "dir">>,
                    <<Dirname \o <<"server.js">>, "server.js">>,
                    <<PIXEL_ASSETS_DIR, "dir">>,
                    <<PIXEL_ASSETS_DIR \o <<"a.png">>, "a.png">>}
    IN  [q \in {e[1] : e \in entries} |->
            (CHOOSE e \in entries : e[1] = q)[2]]

\* The server is started and no request was made.
ServerInit == disk = ServerDisk /\ response = <<>>

---------------------------------------------------------------------------
(* The editor: initial state and operations.                               *)

\* new PixelEditor(manager): initState.  The canvas elements get their size
\* in loadImage, before any other operation uses them.
EditorInit ==
    /\ modalActive = FALSE
    /\ imageData = <<>>
    /\ pending = {}
    /\ canvasW = 0
    /\ canvasH = 0
    /\ layers = <<>>
    /\ currentLayerIndex = 0
    /\ history = <<>>
    /\ historyIndex = -1
    /\ currentTool = "pencil"
    /\ primaryColor = Black
    /\ palette = <<>>
    /\ fillShape = FALSE
    /\ isDrawing = FALSE
    /\ startX = 0
    /\ startY = 0
    /\ tempLayer = NewSurface(0, 0)
    /\ cropMode = FALSE
    /\ cropRect = <<>>
    /\ lassoMode = FALSE
    /\ lassoPoints = <<>>
    /\ lassoContent = <<>>

FillIdle == fillArg = <<>> /\ fillOut = <<>>

\* new PixelArtManager() with an empty localStorage.
ManagerInit ==
    /\ images = <<>>
    /\ masterPalette = <<>>
    /\ selectedImage = 0

\* No import runs.
ImportIdle ==
    /\ importKind = "none"
    /\ importFiles = <<>>
    /\ importPos = 0
    /\ reading = {}
    /\ decoding = {}
    /\ processed = 0
    /\ skipped = 0
    /\ importDone = FALSE

CallIdle == call = <<>> /\ result = <<>>

Init == EditorInit /\ FillIdle /\ ManagerInit /\ ImportIdle /\ ServerInit /\ CallIdle

toolVars == <<currentTool, primaryColor, fillShape>>
dragVars == <<isDrawing, startX, startY, tempLayer>>
cropVars == <<cropMode, cropRect>>
lassoVars == <<lassoMode, lassoPoints, lassoContent>>
historyVars == <<history, historyIndex>>
sessionVars == <<modalActive, imageData, pending>>
canvasVars == <<canvasW, canvasH>>
fillVars == <<fillArg, fillOut>>
managerVars == <<images, masterPalette, selectedImage>>
importVars == <<importKind, importFiles, importPos, reading, decoding, processed,
                skipped, importDone>>
callVars == <<call, result>>
serverVars == <<disk, response>>
editorVars == <<sessionVars, canvasVars, layers, currentLayerIndex, historyVars,
                toolVars, palette, dragVars, cropVars, lassoVars>>
\* The variables outside the editor.
outsideVars == <<fillVars, managerVars, importVars, callVars, serverVars>>

\* The variables outside the editor that no handler of the editor writes.
restVars == <<fillVars, masterPalette, selectedImage, importVars, callVars, serverVars>>

\* updatePreview(): the color counts of the composed canvas go into
\* manager.selectedImage.colorMap, when an image is selected.
updatePreview(imgs, sel, ls, w, h) ==
    IF sel = 0 THEN imgs
    ELSE [imgs EXCEPT ![sel].colorMap =
             CountRows(getImageData(composeLayers(ls, w, h), w, h).data,
                       Max(w, 1), 0, <<>>)]

\* this.imageData.width = width; this.imageData.height = height in
\* confirmCrop: this.imageData is the object loadImage was given, which
\* showPixelEditor takes from manager.selectedImage.
RecordSize(imgs, sel, width, height) ==
    IF sel = 0 THEN imgs
    ELSE [imgs EXCEPT ![sel].width = width, ![sel].height = height]

\* loadImage(imageData), up to img.src = ...: the canvases take the image's
\* size (which clears them) and the decode is in flight.
LoadImage(img) ==
    /\ ~modalActive
    /\ pending = {}
    /\ imageData' = <<[width |-> img.width, height |-> img.height]>>
    /\ canvasW' = img.width
    /\ canvasH' = img.height
    /\ tempLayer' = NewSurface(img.width, img.height)
    /\ pending' = pending \cup {img}
    /\ UNCHANGED <<modalActive, layers, currentLayerIndex, historyVars, toolVars,
                   isDrawing, startX, startY, cropVars, lassoVars, palette, outsideVars>>

\* img.onload of loadImage.
ImgOnload(img) ==
    /\ img \in pending
    /\ pending' = pending \ {img}
    /\ LET base == [id |-> 1, name |-> 1, visible |-> TRUE,
                    canvas |-> drawImage(NewSurface(img.width, img.height),
                                         img.dataUrl, 0, 0)]
           saved == saveHistory(history, historyIndex, <<base>>, 0, canvasW, canvasH)
       IN  /\ layers' = <<base>>
           /\ currentLayerIndex' = 0
           /\ history' = saved.history
           /\ historyIndex' = saved.historyIndex
    /\ palette' = setupPalette(img.palette)
    /\ primaryColor' = DefaultPrimary(palette', primaryColor)
    /\ modalActive' = TRUE
    /\ UNCHANGED <<imageData, canvasVars, currentTool, fillShape, dragVars,
                   cropVars, lassoVars, restVars>>
    /\ images' = updatePreview(images, selectedImage, layers', canvasW, canvasH)

\* close()
Close ==
    /\ modalActive
    /\ modalActive' = FALSE
    /\ layers' = <<>>
    /\ history' = <<>>
    /\ historyIndex' = -1
    /\ UNCHANGED <<imageData, pending, canvasVars, currentLayerIndex, toolVars,
                   dragVars, cropVars, lassoVars, palette, outsideVars>>

\* The click handler of a tool button: enterCropMode / exitCropMode, then
\* enterLassoMode / exitLassoMode.
SelectTool(tool) ==
    /\ modalActive
    /\ currentTool' = tool
    /\ IF tool = "crop"
       THEN /\ cropMode' = TRUE
            /\ cropRect' = <<[x |-> 0, y |-> 0, width |-> canvasW, height |-> canvasH]>>
       ELSE /\ cropMode' = FALSE
            /\ cropRect' = <<>>
    /\ lassoMode' = (tool = "lasso")
    /\ lassoPoints' = <<>>
    /\ lassoContent' = <<>>
    /\ UNCHANGED <<sessionVars, canvasVars, layers, currentLayerIndex, historyVars,
                   primaryColor, fillShape, dragVars, palette, outsideVars>>

\* setPrimaryColor(color) from the color input or a palette click.
SetPrimaryColor(color) ==
    /\ modalActive
    /\ primaryColor' = toUpperCase(color)
    /\ UNCHANGED <<sessionVars, canvasVars, layers, currentLayerIndex, historyVars,
                   currentTool, fillShape, dragVars, cropVars, lassoVars, palette, outsideVars>>

\* The change handler of the "fill shape" checkbox.
SetFillShape(b) ==
    /\ modalActive
    /\ fillShape' = b
    /\ UNCHANGED <<sessionVars, canvasVars, layers, currentLayerIndex, historyVars,
                   currentTool, primaryColor, dragVars, cropVars, lassoVars, palette, outsideVars>>

\* replaceColor(oldColor, newColor) from the color replace menu: oldColor is
\* a color of this.palette, newColor a color of the master palette.
replaceColor(oldColor, newColor) ==
    /\ modalActive
    /\ \E i \in 1..Len(palette) : palette[i] = oldColor
    /\ LET oldRgb == hexToRgb(toUpperCase(oldColor))
           newRgb == hexToRgb(toUpperCase(newColor))
       IN  IF oldRgb = <<>> \/ newRgb = <<>> THEN UNCHANGED vars
           ELSE /\ layers' = [i \in 1..Len(layers) |->
                                 [layers[i] EXCEPT !.canvas =
                                     ReplaceOnCanvas(@, canvasW, canvasH, oldRgb, newRgb)]]
                /\ LET saved == saveHistory(history, historyIndex, layers',
                                            currentLayerIndex, canvasW, canvasH)
                   IN  /\ history' = saved.history
                       /\ historyIndex' = saved.historyIndex
                /\ palette' = setupPalette(ReplacedPalette(palette, oldColor, newColor))
                /\ primaryColor' = DefaultPrimary(palette', primaryColor)
                /\ UNCHANGED <<sessionVars, canvasVars, currentLayerIndex, currentTool,
                               fillShape, dragVars, cropVars, lassoVars, restVars>>
                /\ images' = updatePreview(images, selectedImage, layers', canvasW, canvasH)

---------------------------------------------------------------------------
(* Mouse events on the canvas.                                             *)

\* onMouseDown(e) with e at canvas coordinates (x, y), e.altKey = alt and the
\* left button.
onMouseDown(x, y, alt) ==
    /\ modalActive
    /\ IF cropMode THEN UNCHANGED vars
       ELSE IF alt THEN
            /\ primaryColor' = pickColor(layers, canvasW, canvasH, x, y, primaryColor)
            /\ UNCHANGED <<sessionVars, canvasVars, layers, currentLayerIndex,
                           historyVars, currentTool, fillShape, dragVars, cropVars,
                           lassoVars, palette, outsideVars>>
       ELSE IF currentTool = "lasso" THEN
            IF lassoContent # <<>> THEN UNCHANGED vars
            ELSE /\ isDrawing' = TRUE
                 /\ lassoPoints' = <<[x |-> x, y |-> y]>>
                 /\ UNCHANGED <<sessionVars, canvasVars, layers, currentLayerIndex,
                                historyVars, toolVars, startX, startY, tempLayer,
                                cropVars, lassoMode, lassoContent, palette, outsideVars>>
       ELSE /\ startX' = x
            /\ startY' = y
            /\ isDrawing' = (currentTool # "fill")
            /\ layers' =
                 IF currentTool = "pencil"
                 THEN drawPixel(layers, currentLayerIndex, canvasW, canvasH, x, y, primaryColor)
                 ELSE IF currentTool = "eraser"
                 THEN erasePixel(layers, currentLayerIndex, canvasW, canvasH, x, y)
                 ELSE IF currentTool = "fill"
                 THEN WithActive(layers, currentLayerIndex,
                                 floodFill(layers[currentLayerIndex + 1].canvas,
                                           canvasW, canvasH, x, y, primaryColor))
                 ELSE layers
            /\ primaryColor' =
                 IF currentTool = "picker"
                 THEN pickColor(layers, canvasW, canvasH, x, y, primaryColor)
                 ELSE primaryColor
            \* floodFill ends with saveHistory unless it returned early
            /\ IF /\ currentTool = "fill"
                  /\ FillRuns(layers[currentLayerIndex + 1].canvas,
                              canvasW, canvasH, x, y, primaryColor)
               THEN LET saved == saveHistory(history, historyIndex, layers',
                                             currentLayerIndex, canvasW, canvasH)
                    IN  /\ history' = saved.history
                        /\ historyIndex' = saved.historyIndex
               ELSE UNCHANGED historyVars
            /\ UNCHANGED <<sessionVars, canvasVars, currentLayerIndex, currentTool,
                           fillShape, tempLayer, cropVars, lassoVars, palette, restVars>>
            /\ images' = IF currentTool \in {"pencil", "eraser", "fill"}
                        THEN updatePreview(images, selectedImage, layers', canvasW, canvasH)
                        ELSE images

\* onMouseMove(e)
onMouseMove(x, y) ==
    /\ modalActive
    /\ IF cropMode THEN UNCHANGED vars
       ELSE IF currentTool = "lasso" /\ isDrawing /\ lassoContent = <<>> THEN
            /\ lassoPoints' = Append(lassoPoints, [x |-> x, y |-> y])
            /\ UNCHANGED <<sessionVars, canvasVars, layers, currentLayerIndex,
                           historyVars, toolVars, dragVars, cropVars, lassoMode,
                           lassoContent, palette, outsideVars>>
       ELSE IF ~isDrawing THEN UNCHANGED vars
       ELSE IF currentTool \in {"pencil", "eraser"} THEN
            /\ layers' = drawLine(layers, currentLayerIndex, canvasW, canvasH,
                                  startX, startY, x, y, primaryColor,
                                  currentTool = "eraser")
            /\ startX' = x
            /\ startY' = y
            /\ UNCHANGED <<sessionVars, canvasVars, currentLayerIndex, historyVars,
                           toolVars, isDrawing, tempLayer, cropVars, lassoVars,
                           palette, restVars>>
            /\ images' = updatePreview(images, selectedImage, layers', canvasW, canvasH)
       ELSE IF currentTool \in {"line", "rectangle", "circle"} THEN
            \* drawShapePreview
            /\ tempLayer' = ShapeOnContext(currentTool,
                                clearRect(tempLayer, 0, 0, tempLayer.w, tempLayer.h),
                                startX, startY, x, y, primaryColor, fillShape)
            /\ UNCHANGED <<sessionVars, canvasVars, layers, currentLayerIndex,
                           historyVars, toolVars, isDrawing, startX, startY,
                           cropVars, lassoVars, palette, outsideVars>>
       ELSE UNCHANGED vars

\* onMouseUp(e): the handler of mouseup and of mouseleave.
onMouseUp(x, y) ==
    /\ modalActive
    /\ IF currentTool = "lasso" /\ isDrawing /\ lassoContent = <<>> THEN
            /\ isDrawing' = FALSE
            /\ IF Len(lassoPoints) > 2 /\ LassoExtracts(lassoPoints, canvasW, canvasH)
               THEN LET got == extractLassoContent(layers[currentLayerIndex + 1].canvas,
                                                   lassoPoints, canvasW, canvasH)
                    IN  /\ layers' = WithActive(layers, currentLayerIndex, got.canvas)
                        /\ lassoContent' = <<got.content>>
               ELSE UNCHANGED <<layers, lassoContent>>
            /\ UNCHANGED <<sessionVars, canvasVars, currentLayerIndex, historyVars,
                           toolVars, startX, startY, tempLayer, cropVars, lassoMode,
                           lassoPoints, palette, restVars>>
            /\ images' = IF Len(lassoPoints) > 2 /\ LassoExtracts(lassoPoints, canvasW, canvasH)
                        THEN updatePreview(images, selectedImage, layers', canvasW, canvasH)
                        ELSE images
       ELSE IF ~isDrawing THEN UNCHANGED vars
       ELSE /\ layers' = WithActive(layers, currentLayerIndex,
                            ShapeOnContext(currentTool, layers[currentLayerIndex + 1].canvas,
                                           startX, startY, x, y, primaryColor, fillShape))
            /\ tempLayer' = clearRect(tempLayer, 0, 0, tempLayer.w, tempLayer.h)
            /\ isDrawing' = FALSE
            /\ LET saved == saveHistory(history, historyIndex, layers',
                                        currentLayerIndex, canvasW, canvasH)
               IN  /\ history' = saved.history
                   /\ historyIndex' = saved.historyIndex
            /\ UNCHANGED <<sessionVars, canvasVars, currentLayerIndex, toolVars,
                           startX, startY, cropVars, lassoVars, palette, restVars>>
            /\ images' = updatePreview(images, selectedImage, layers', canvasW, canvasH)

---------------------------------------------------------------------------
(* Layers, undo and redo.                                                  *)

\* addLayer()
addLayer ==
    /\ modalActive
    /\ layers' = Append(layers, NewLayer(DateNow(layers), Len(layers) + 1,
                                         canvasW, canvasH))
    /\ currentLayerIndex' = Len(layers')  - 1
    /\ LET saved == saveHistory(history, historyIndex, layers', currentLayerIndex',
                                canvasW, canvasH)
       IN  /\ history' = saved.history
           /\ historyIndex' = saved.historyIndex
    /\ UNCHANGED <<sessionVars, canvasVars, toolVars, dragVars, cropVars,
                   lassoVars, palette, outsideVars>>

\* Array.prototype.splice(i, 1) at the 0-based index i.
Splice(seq, i) == SubSeq(seq, 1, i) \o SubSeq(seq, i + 2, Len(seq))

\* A faulty variant of deleteLayer that also deletes the last layer.
deleteLayerAny ==
    /\ modalActive
    /\ layers # <<>>
    /\ layers' = Splice(layers, currentLayerIndex)
    /\ currentLayerIndex' = Min(currentLayerIndex, Len(layers') - 1)
    /\ LET saved == saveHistory(history, historyIndex, layers',
                                currentLayerIndex', canvasW, canvasH)
       IN  /\ history' = saved.history
           /\ historyIndex' = saved.historyIndex
    /\ UNCHANGED <<sessionVars, canvasVars, toolVars, dragVars, cropVars,
                   lassoVars, palette, restVars>>
    /\ images' = updatePreview(images, selectedImage, layers', canvasW, canvasH)

\* A faulty variant of deleteLayer that leaves the index as it was.
deleteLayerNoClamp ==
    /\ modalActive
    /\ IF Len(layers) <= 1 THEN UNCHANGED vars
       ELSE /\ layers' = Splice(layers, currentLayerIndex)
            /\ LET saved == saveHistory(history, historyIndex, layers',
                                        currentLayerIndex, canvasW, canvasH)
               IN  /\ history' = saved.history
                   /\ historyIndex' = saved.historyIndex
            /\ UNCHANGED <<sessionVars, canvasVars, currentLayerIndex, toolVars,
                           dragVars, cropVars, lassoVars, palette, restVars>>
            /\ images' = updatePreview(images, selectedImage, layers', canvasW, canvasH)

\* deleteLayer()
deleteLayer ==
    /\ modalActive
    /\ IF Len(layers) <= 1 THEN UNCHANGED vars
       ELSE /\ layers' = Splice(layers, currentLayerIndex)
            /\ currentLayerIndex' = Min(currentLayerIndex, Len(layers') - 1)
            /\ LET saved == saveHistory(history, historyIndex, layers',
                                        currentLayerIndex', canvasW, canvasH)
               IN  /\ history' = saved.history
                   /\ historyIndex' = saved.historyIndex
            /\ UNCHANGED <<sessionVars, canvasVars, toolVars, dragVars, cropVars,
                           lassoVars, palette, restVars>>
            /\ images' = updatePreview(images, selectedImage, layers', canvasW, canvasH)

\* The click handler of a layer item (renderLayers).
SelectLayer(index) ==
    /\ modalActive
    /\ index \in 0..(Len(layers) - 1)
    /\ currentLayerIndex' = index
    /\ UNCHANGED <<sessionVars, canvasVars, layers, historyVars, toolVars,
                   dragVars, cropVars, lassoVars, palette, outsideVars>>

\* The click handler of a layer's visibility icon (renderLayers).
ToggleVisibility(index) ==
    /\ modalActive
    /\ index \in 0..(Len(layers) - 1)
    /\ layers' = [layers EXCEPT ![index + 1].visible = ~layers[index + 1].visible]
    /\ UNCHANGED <<sessionVars, canvasVars, currentLayerIndex, historyVars,
                   toolVars, dragVars, cropVars, lassoVars, palette, restVars>>
    /\ images' = updatePreview(images, selectedImage, layers', canvasW, canvasH)

\* undo()
undo ==
    /\ modalActive
    /\ IF historyIndex <= 0 THEN UNCHANGED vars
       ELSE /\ historyIndex' = historyIndex - 1
            /\ currentLayerIndex' = history[historyIndex'  + 1].currentLayerIndex
            /\ layers' = restoreHistory(history[historyIndex' + 1], canvasW, canvasH)
            /\ UNCHANGED <<sessionVars, canvasVars, history, toolVars, dragVars,
                           cropVars, lassoVars, palette, restVars>>
            /\ images' = updatePreview(images, selectedImage, layers', canvasW, canvasH)

\* redo()
redo ==
    /\ modalActive
    /\ IF historyIndex >= Len(history) - 1 THEN UNCHANGED vars
       ELSE /\ historyIndex' = historyIndex + 1
            /\ currentLayerIndex' = history[historyIndex' + 1].currentLayerIndex
            /\ layers' = restoreHistory(history[historyIndex' + 1], canvasW, canvasH)
            /\ UNCHANGED <<sessionVars, canvasVars, history, toolVars, dragVars,
                           cropVars, lassoVars, palette, restVars>>
            /\ images' = updatePreview(images, selectedImage, layers', canvasW, canvasH)

---------------------------------------------------------------------------
(* Crop.                                                                   *)

\* handleCropDrag after a press on the selection and a move by (dx, dy)
\* canvas pixels.
handleCropDrag(dx, dy) ==
    /\ modalActive
    /\ cropMode
    /\ cropRect # <<>>
    /\ LET r == cropRect[1]
           newX == Max(0, Min(r.x + dx, canvasW - r.width))
           newY == Max(0, Min(r.y + dy, canvasH - r.height))
       IN  cropRect' = <<[r EXCEPT !.x = newX, !.y = newY]>>
    /\ UNCHANGED <<sessionVars, canvasVars, layers, currentLayerIndex, historyVars,
                   toolVars, dragVars, cropMode, lassoVars, palette, outsideVars>>

\* Whether the name of a handle contains the letter of a side.
HandleHas(handle, side) ==
    CASE side = "w" -> handle \in {"nw", "sw", "w"}
      [] side = "e" -> handle \in {"ne", "se", "e"}
      [] side = "n" -> handle \in {"nw", "n", "ne"}
      [] side = "s" -> handle \in {"sw", "s", "se"}

\* handleCropResize after a press on a handle and a move by (dx, dy) canvas
\* pixels.
handleCropResize(handle, dx, dy) ==
    /\ modalActive
    /\ cropMode
    /\ cropRect # <<>>
    /\ LET r == cropRect[1]
           newX == IF HandleHas(handle, "w") THEN Max(0, r.x + dx) ELSE r.x
           widthW == IF HandleHas(handle, "w") THEN r.width - (newX - r.x) ELSE r.width
           newWidth == IF HandleHas(handle, "e")
                       THEN Min(canvasW - r.x, r.width + dx) ELSE widthW
           newY == IF HandleHas(handle, "n") THEN Max(0, r.y + dy) ELSE r.y
           heightN == IF HandleHas(handle, "n") THEN r.height - (newY - r.y) ELSE r.height
           newHeight == IF HandleHas(handle, "s")
                        THEN Min(canvasH - r.y, r.height + dy) ELSE heightN
       IN  IF newWidth >= 1 /\ newHeight >= 1
           THEN cropRect' = <<[x |-> newX, y |-> newY,
                               width |-> newWidth, height |-> newHeight]>>
           ELSE UNCHANGED cropRect
    /\ UNCHANGED <<sessionVars, canvasVars, layers, currentLayerIndex, historyVars,
                   toolVars, dragVars, cropMode, lassoVars, palette, outsideVars>>

\* exitCropMode() from the cancel button of the crop controls.
exitCropMode ==
    /\ modalActive
    /\ cropMode
    /\ cropMode' = FALSE
    /\ cropRect' = <<>>
    /\ UNCHANGED <<sessionVars, canvasVars, layers, currentLayerIndex, historyVars,
                   toolVars, dragVars, lassoVars, palette, outsideVars>>

\* A faulty variant of CropLayer that copies from the origin of the layer.
CropLayerFromOrigin(layer, x, y, width, height) ==
    [id |-> layer.id, name |-> layer.name, visible |-> layer.visible,
     canvas |-> drawImageRect(NewSurface(width, height), layer.canvas,
                              0, 0, width, height)]

\* One layer of confirmCrop's newLayers.
CropLayer(layer, x, y, width, height) ==
    [id |-> layer.id, name |-> layer.name, visible |-> layer.visible,
     canvas |-> drawImageRect(NewSurface(width, height), layer.canvas,
                              x, y, width, height)]

\* confirmCrop() from the apply button of the crop controls.
confirmCrop ==
    /\ modalActive
    /\ cropMode
    /\ IF cropRect = <<>> THEN UNCHANGED vars
       ELSE LET r == cropRect[1]
            IN  /\ layers' = [i \in 1..Len(layers) |->
                                 CropLayer(layers[i], r.x, r.y, r.width, r.height)]
                /\ canvasW' = r.width
                /\ canvasH' = r.height
                /\ tempLayer' = NewSurface(r.width, r.height)
                /\ imageData' = IF imageData = <<>> THEN imageData
                                ELSE <<[imageData[1] EXCEPT !.width = r.width,
                                                            !.height = r.height]>>
                /\ cropMode' = FALSE
                /\ cropRect' = <<>>
                /\ LET saved == saveHistory(history, historyIndex, layers',
                                            currentLayerIndex, canvasW', canvasH')
                   IN  /\ history' = saved.history
                       /\ historyIndex' = saved.historyIndex
                /\ UNCHANGED <<modalActive, pending, currentLayerIndex, toolVars,
                               isDrawing, startX, startY, lassoVars, palette, restVars>>
                /\ images' = updatePreview(RecordSize(images, selectedImage, r.width, r.height),
                                         selectedImage, layers', canvasW', canvasH')

---------------------------------------------------------------------------
(* The lasso controls.                                                     *)

\* onLassoContentMouseDown and its move handler: the floating content
\* dragged by (dx, dy) canvas pixels.
dragLassoContent(dx, dy) ==
    /\ modalActive
    /\ lassoContent # <<>>
    /\ lassoContent' = <<[lassoContent[1] EXCEPT !.x = @ + dx, !.y = @ + dy]>>
    /\ UNCHANGED <<sessionVars, canvasVars, layers, currentLayerIndex, historyVars,
                   toolVars, dragVars, cropVars, lassoMode, lassoPoints, palette, outsideVars>>

\* moveLassoContent() from the move button of the lasso controls.
moveLassoContent ==
    /\ modalActive
    /\ lassoMode
    /\ IF lassoContent = <<>> THEN UNCHANGED vars
       ELSE /\ layers' = WithActive(layers, currentLayerIndex,
                            drawImage(layers[currentLayerIndex + 1].canvas,
                                      lassoContent[1].canvas,
                                      lassoContent[1].x, lassoContent[1].y))
            /\ LET saved == saveHistory(history, historyIndex, layers',
                                        currentLayerIndex, canvasW, canvasH)
               IN  /\ history' = saved.history
                   /\ historyIndex' = saved.historyIndex
            /\ lassoMode' = FALSE
            /\ lassoPoints' = <<>>
            /\ lassoContent' = <<>>
            /\ UNCHANGED <<sessionVars, canvasVars, currentLayerIndex, toolVars,
                           dragVars, cropVars, palette, restVars>>
            /\ images' = updatePreview(images, selectedImage, layers', canvasW, canvasH)

\* cutLassoContent() from the cut button of the lasso controls.
cutLassoContent ==
    /\ modalActive
    /\ lassoMode
    /\ lassoMode' = FALSE
    /\ lassoPoints' = <<>>
    /\ lassoContent' = <<>>
    /\ LET saved == saveHistory(history, historyIndex, layers, currentLayerIndex,
                                canvasW, canvasH)
       IN  /\ history' = saved.history
           /\ historyIndex' = saved.historyIndex
    /\ UNCHANGED <<sessionVars, canvasVars, layers, currentLayerIndex, toolVars,
                   dragVars, cropVars, palette, outsideVars>>

\* exitLassoMode() from the cancel button of the lasso controls.
exitLassoMode ==
    /\ modalActive
    /\ lassoMode
    /\ lassoMode' = FALSE
    /\ lassoPoints' = <<>>
    /\ lassoContent' = <<>>
    /\ UNCHANGED <<sessionVars, canvasVars, layers, currentLayerIndex, historyVars,
                   toolVars, dragVars, cropVars, palette, outsideVars>>

\* The click on a gallery item: manager.selectedImage = the image clicked.
selectImage(i) ==
    /\ i \in 1..Len(images)
    /\ selectedImage' = i
    /\ UNCHANGED <<editorVars, fillVars, images, masterPalette, importVars, callVars, serverVars>>

\* showPixelEditor(): loadImage(manager.selectedImage).
showPixelEditor ==
    /\ selectedImage # 0
    /\ LoadImage(images[selectedImage])

\* The loop of save() over the pixels i..last of the merged canvas, with
\* the colors of the Set (in insertion order) so far.
RECURSIVE ColorSetLoop(_, _, _, _)
ColorSetLoop(pixels, i, last, colorSet) ==
    IF i > last THEN colorSet
    ELSE LET p == pixels[i]
             hex == toUpperCase(rgbToHex(p[1], p[2], p[3]))
         IN  IF p[4] < 128 \/ Includes(colorSet, hex)
             THEN ColorSetLoop(pixels, i + 1, last, colorSet)
             ELSE ColorSetLoop(pixels, i + 1, last, Append(colorSet, hex))

\* The same loop taken one pixel row at a time, from row y on.
RECURSIVE ColorSetRows(_, _, _, _)
ColorSetRows(pixels, w, y, colorSet) ==
    IF y * w >= Len(pixels) THEN colorSet
    ELSE ColorSetRows(pixels, w, y + 1,
                      ColorSetLoop(pixels, y * w + 1, Min(Len(pixels), (y + 1) * w),
                                   colorSet))

\* What save() writes into manager.selectedImage.
SavedRecord(rec, ls, w, h) ==
    LET finalCanvas == ComposeOnto(NewSurface(w, h), ls)
        pixels == getImageData(finalCanvas, w, h).data
        colors == ColorSetRows(pixels, Max(w, 1), 0, <<>>)
    IN  [rec EXCEPT !.dataUrl = finalCanvas, !.colors = colors,
                    !.colorCount = Len(colors), !.palette = colors]

\* save(): the merged image and its colors go into the selected record,
\* then close().
save ==
    /\ modalActive
    /\ selectedImage # 0
    /\ images' = [images EXCEPT ![selectedImage] =
                     SavedRecord(@, layers, canvasW, canvasH)]
    /\ modalActive' = FALSE
    /\ layers' = <<>>
    /\ history' = <<>>
    /\ historyIndex' = -1
    /\ UNCHANGED <<imageData, pending, canvasVars, currentLayerIndex, toolVars,
                   dragVars, cropVars, lassoVars, palette, fillVars,
                   masterPalette, selectedImage, importVars, callVars, serverVars>>

---------------------------------------------------------------------------
(* The imports: file picker, folder import and server auto-load.           *)

\* A file of an import is [name, type, readable, decodes, image, folder]:
\* whether its FileReader (or its download) answers, whether the browser
\* decodes it, and the decoded raster.

possibleScales == <<10, 8, 4, 2>>

\* The test of a candidate scale: both quotients are integers in [16, 32].
ScaleFits(width, height, scale) ==
    /\ width % scale = 0 /\ height % scale = 0
    /\ width \div scale >= 16 /\ width \div scale <= 32
    /\ height \div scale >= 16 /\ height \div scale <= 32

\* detectedScale after the loop over possibleScales.
detectedScale(width, height) ==
    LET fits == {k \in 1..Len(possibleScales) :
                    ScaleFits(width, height, possibleScales[k])}
    IN  IF fits = {} THEN 1
        ELSE possibleScales[CHOOSE k \in fits : \A j \in fits : k <= j]

\* A faulty variant of the downscaling that samples the first pixel of each
\* block instead of its center.
hardEdgeDownscaleCorner(img, scale) ==
    LET sourceData == getImageData(drawImage(NewSurface(img.w, img.h), img, 0, 0),
                                   img.w, img.h)
        originalW == img.w \div scale
        originalH == img.h \div scale
        destData ==
            [w |-> originalW, h |-> originalH,
             data |-> [i \in 1..(originalW * originalH) |->
                 LET x == (i - 1) % originalW
                     y == (i - 1) \div originalW
                 IN  sourceData.data[(y * scale) * img.w + x * scale + 1]]]
    IN  putImageData(NewSurface(originalW, originalH), destData)

\* The hard-edge downscaling: the canvas whose toDataURL is scaledDataUrl.
\* Math.floor(x * scale + scale / 2) is taken on the doubled numerator.
hardEdgeDownscale(img, scale) ==
    LET sourceData == getImageData(drawImage(NewSurface(img.w, img.h), img, 0, 0),
                                   img.w, img.h)
        originalW == img.w \div scale
        originalH == img.h \div scale
        destData ==
            [w |-> originalW, h |-> originalH,
             data |-> [i \in 1..(originalW * originalH) |->
                 LET x == (i - 1) % originalW
                     y == (i - 1) \div originalW
                     sourceX == (2 * x * scale + scale) \div 2
                     sourceY == (2 * y * scale + scale) \div 2
                 IN  sourceData.data[sourceY * img.w + sourceX + 1]]]
    IN  putImageData(NewSurface(originalW, originalH), destData)

\* The raster an import goes on with after the scale detection.
scaledImage(img) ==
    LET scale == detectedScale(img.w, img.h)
    IN  IF scale > 1 THEN hardEdgeDownscale(img, scale) ELSE img

\* A faulty variant of the color validation without the upper limit.
ColorsValidNoCap(colors) == ~(Len(colors) < 2)

\* The two validations of the imports.
SizeValid(width, height) ==
    ~(width < 16 \/ width > 32 \/ height < 16 \/ height > 32)
ColorsValid(colors) == ~(Len(colors) < 2 \/ Len(colors) > 15)

Digits == {"0", "1", "2", "3", "4", "5", "6", "7", "8", "9"}

\* The characters of s from position i on that are left after a run of digits.
RECURSIVE SkipDigits(_, _)
SkipDigits(s, i) ==
    IF i <= Len(s) /\ s[i] \in Digits THEN SkipDigits(s, i + 1) ELSE i

\* name.replace(/_x\d+/gi, ''), from position i on.
RECURSIVE RemoveScaleSuffix(_, _)
RemoveScaleSuffix(s, i) ==
    IF i > Len(s) THEN <<>>
    ELSE IF /\ i + 2 <= Len(s)
            /\ s[i] = "_" /\ s[i + 1] \in {"x", "X"} /\ s[i + 2] \in Digits
         THEN RemoveScaleSuffix(s, SkipDigits(s, i + 2))
         ELSE <<s[i]>> \o RemoveScaleSuffix(s, i + 1)

cleanName(name, scale) == IF scale > 1 THEN RemoveScaleSuffix(name, 1) ELSE name

IsPng(file) == file.type = "image/png"

\* The first PNG file after position pos of the file picker's list, or
\* Len(files) + 1: the loop of handleFileImport skips the other files.
NextPng(files, pos) ==
    IF \E j \in (pos + 1)..Len(files) : IsPng(files[j])
    THEN CHOOSE j \in (pos + 1)..Len(files) :
            IsPng(files[j]) /\ \A k \in (pos + 1)..(j - 1) : ~IsPng(files[k])
    ELSE Len(files) + 1

\* The files of the server list from position pos + 1 on that the loop of
\* autoLoadFromServer skips as already imported, up to the first that it
\* loads (or Len(files) + 1).
NextNew(files, pos, imgs) ==
    LET Known(j) == \E i \in 1..Len(imgs) : imgs[i].name = files[j].name
    IN  IF \E j \in (pos + 1)..Len(files) : ~Known(j)
        THEN CHOOSE j \in (pos + 1)..Len(files) :
                ~Known(j) /\ \A k \in (pos + 1)..(j - 1) : Known(k)
        ELSE Len(files) + 1

\* The loop of an import goes on after the file at position pos: what it
\* leaves in importPos, reading, decoding, skipped and importDone.  The
\* file picker and the folder import read the next file; the server
\* auto-load counts the files already imported as skipped and starts the
\* load of the next one.
LoopFrom(kind, files, pos, imgs, rd, dec, skp) ==
    LET next == IF kind = "files" THEN NextPng(files, pos)
                ELSE IF kind = "server" THEN NextNew(files, pos, imgs)
                ELSE pos + 1
        over == next > Len(files)
    IN  [importPos |-> next,
         reading |-> IF over \/ kind = "server" THEN rd ELSE rd \cup {next},
         decoding |-> IF over \/ kind # "server" THEN dec
                      ELSE dec \cup {[file |-> next, stage |-> "img"]},
         skipped |-> IF kind = "server" THEN skp + (next - pos - 1) ELSE skp,
         importDone |-> over]

\* The state of the import after the step left importPos ... importDone in r.
ImportGoesOn(r) ==
    /\ importPos' = r.importPos
    /\ reading' = r.reading
    /\ decoding' = r.decoding
    /\ skipped' = r.skipped
    /\ importDone' = r.importDone

notImportVars == <<editorVars, fillVars, selectedImage, callVars, serverVars>>

\* handleFileImport(files), handleFolderImport(files) and
\* autoLoadFromServer() (files: data.images) up to their first await.  The
\* folder import keeps the PNG files only and returns at once without any.
startImport(kind, files) ==
    /\ importKind = "none"
    /\ LET list == IF kind = "folder" THEN SelectSeq(files, IsPng) ELSE files
       IN  /\ list # <<>>
           /\ importKind' = kind
           /\ importFiles' = list
           /\ processed' = 0
           /\ ImportGoesOn(LoopFrom(kind, list, 0, images, {}, {}, 0))
    /\ UNCHANGED <<notImportVars, images, masterPalette>>

\* reader.onload of readFileAsDataURL: the await returns and img.src is set.
\* The loop of handleFileImport goes on to the next file at once; the one
\* of handleFolderImport awaits the promise of this file.
readerOnload(i) ==
    /\ i \in reading
    /\ importFiles[i].readable
    /\ LET loading == decoding \cup {[file |-> i, stage |-> "img"]}
       IN  IF importKind = "files"
           THEN ImportGoesOn(LoopFrom(importKind, importFiles, importPos, images,
                                      reading \ {i}, loading, skipped))
           ELSE /\ reading' = reading \ {i}
                /\ decoding' = loading
                /\ UNCHANGED <<importPos, skipped, importDone>>
    /\ UNCHANGED <<notImportVars, images, masterPalette, importKind, importFiles,
                   processed>>

\* The step of an import that ends the work on file d.file without a
\* record: handleFileImport returns from the callback; the other two count
\* the file as skipped and resolve the promise their loop awaits.
FileSkipped(d) ==
    /\ IF importKind = "files"
       THEN /\ decoding' = decoding \ {d}
            /\ UNCHANGED <<importPos, reading, skipped, importDone>>
       ELSE ImportGoesOn(LoopFrom(importKind, importFiles, importPos, images,
                                  reading, decoding \ {d}, skipped + 1))
    /\ UNCHANGED <<notImportVars, images, masterPalette, importKind, importFiles,
                   processed>>

\* img.onerror: the file does not decode.
importImgOnerror(d) ==
    /\ d \in decoding
    /\ d.stage = "img"
    /\ ~importFiles[d.file].decodes
    /\ FileSkipped(d)

\* img.onload of an import: scale detection, downscaling, size validation,
\* and analyzeImg.src = the scaled image.
importImgOnload(d) ==
    /\ d \in decoding
    /\ d.stage = "img"
    /\ importFiles[d.file].decodes
    /\ LET img == importFiles[d.file].image
           scale == detectedScale(img.w, img.h)
           scaled == IF scale > 1 THEN hardEdgeDownscale(img, scale)
                     ELSE IF importKind = "server"
                     THEN drawImage(NewSurface(img.w, img.h), img, 0, 0)
                     ELSE img
       IN  IF ~SizeValid(scaled.w, scaled.h)
           THEN FileSkipped(d)
           ELSE /\ decoding' = (decoding \ {d}) \cup
                                  {[file |-> d.file, stage |-> "analyze",
                                    dataUrl |-> scaled, scale |-> scale]}
                /\ UNCHANGED <<notImportVars, images, masterPalette, importKind,
                               importFiles, importPos, reading, processed, skipped,
                               importDone>>

\* analyzeImg.onload of an import: analyzeImage, color validation, addImage.
analyzeImgOnload(d) ==
    /\ d \in decoding
    /\ d.stage = "analyze"
    /\ LET analysis == analyzeImage(d.dataUrl, d.scale > 1, 30)
           file == importFiles[d.file]
           rec == ImageRecord([name |-> cleanName(file.name, d.scale),
                               dataUrl |-> d.dataUrl,
                               width |-> analysis.width, height |-> analysis.height,
                               colors |-> analysis.colors,
                               colorMap |-> analysis.colorMap],
                              IF importKind = "files" THEN "root" ELSE file.folder)
       IN  IF ~ColorsValid(analysis.colors)
           THEN FileSkipped(d)
           ELSE /\ images' = Append(images, rec)
                /\ masterPalette' = updateMasterPalette(masterPalette, analysis.colors)
                /\ IF importKind = "files"
                   THEN /\ decoding' = decoding \ {d}
                        /\ UNCHANGED <<importPos, reading, skipped, importDone,
                                       processed>>
                   ELSE /\ processed' = processed + 1
                        /\ ImportGoesOn(LoopFrom(importKind, importFiles, importPos,
                                                 Append(images, rec), reading,
                                                 decoding \ {d}, skipped))
                /\ UNCHANGED <<notImportVars, importKind, importFiles>>

---------------------------------------------------------------------------
(* The editor session.                                                     *)

\* The explored sessions take a snapshot only while the cursor leaves room
\* for it below MaxSnapshots; a layer delete, which needs a layer added
\* before it, may take one more.
Room == historyIndex + 1 < MaxSnapshots

\* Distances of a crop drag and of a (horizontal) lasso-content drag.
Deltas == {-1, 1}

\* The coordinates explored for a mouse event: a lasso drag follows one of
\* the lasso paths, every other event is at one of Points.
PointerAt(x, y) ==
    IF currentTool = "lasso" /\ ~cropMode /\ lassoContent = <<>>
    THEN OnLassoPath(IF isDrawing THEN Append(lassoPoints, [x |-> x, y |-> y])
                     ELSE <<[x |-> x, y |-> y]>>)
    ELSE <<x, y>> \in Points

\* The points of all mouse events.
MousePoints ==
    Points \cup UNION {{path[i] : i \in 1..Len(path)} : path \in LassoPaths}

\* A press, a toolbar click, a click in the layer panel or on a lasso button
\* comes between two drags, not in the middle of one: the pointer that leaves
\* the canvas for a button ends the drag (mouseleave is bound to onMouseUp).
Idle == ~isDrawing

MouseDown ==
    \E p \in MousePoints, alt \in BOOLEAN :
        /\ Idle
        /\ alt \/ Room
        /\ IF alt THEN p \in Points ELSE PointerAt(p[1], p[2])
        /\ onMouseDown(p[1], p[2], alt)

MouseMove ==
    \E p \in MousePoints :
        /\ isDrawing
        /\ PointerAt(p[1], p[2])
        /\ onMouseMove(p[1], p[2])

MouseUp ==
    \E p \in Points :
        /\ Room \/ ~isDrawing \/ currentTool = "lasso"
        /\ onMouseUp(p[1], p[2])

Next ==
    \/ \E img \in Images : LoadImage(img)
    \/ \E img \in Images : ImgOnload(img)
    \/ Idle /\ ~fillShape /\ Close
    \/ \E tool \in Tools : Idle /\ ~fillShape /\ SelectTool(tool)
    \/ \E color \in UserColors : Idle /\ SetPrimaryColor(color)
    \/ \E b \in BOOLEAN : Idle /\ currentTool = "rectangle" /\ SetFillShape(b)
    \/ \E oldColor \in {palette[i] : i \in 1..Len(palette)}, newColor \in MasterPalette :
          Idle /\ Room /\ replaceColor(oldColor, newColor)
    \/ MouseDown
    \/ MouseMove
    \/ MouseUp
    \/ Idle /\ Room /\ Len(layers) < MaxLayers /\ addLayer
    \/ Idle /\ (historyIndex < MaxSnapshots \/ Len(layers) <= 1) /\ deleteLayer
    \/ \E index \in 0..(MaxLayers - 1) : Idle /\ SelectLayer(index)
    \/ \E index \in {0} : Idle /\ ToggleVisibility(index)
    \/ Idle /\ undo
    \/ Idle /\ redo
    \/ \E dx \in Deltas, dy \in Deltas : handleCropDrag(dx, dy)
    \/ \E handle \in CropHandles, dx \in Deltas, dy \in Deltas :
          handleCropResize(handle, dx, dy)
    \/ exitCropMode
    \/ Room /\ confirmCrop
    \/ \E dx \in Deltas :
          /\ lassoContent # <<>>
          /\ lassoContent[1].x + dx \in 0..(ImgW - 1)
          /\ dragLassoContent(dx, 0)
    \/ Idle /\ Room /\ moveLassoContent
    \/ Idle /\ Room /\ cutLassoContent
    \/ Idle /\ exitLassoMode

Spec == Init /\ [][Next]_vars

---------------------------------------------------------------------------
(* Long sessions: the layer panel and the history only, up to and past     *)
(* the capacity of the history.                                            *)

NextLong ==
    \/ \E img \in Images : LoadImage(img)
    \/ \E img \in Images : ImgOnload(img)
    \/ Close
    \/ Len(layers) < MaxLayers /\ addLayer
    \/ deleteLayer
    \/ undo
    \/ redo

SpecLong == Init /\ [][NextLong]_vars

---------------------------------------------------------------------------
(* The flood fill on its own: floodFill applied once and twice to every    *)
(* small layer, from every start pixel, with every fill color.             *)

\* A black pixel of alpha 100.
SemiBlack == <<0, 0, 0, 100>>

FillPixels == {Clear, BlackPx, SemiBlack}

FillColors == {Black, White, TRANSPARENT}

FillLayers ==
    UNION {{[w |-> w, h |-> h, data |-> d] : d \in [1..(w * h) -> FillPixels]} :
              w \in 1..MaxFillW, h \in 1..MaxFillH}

\* The fully transparent 10 x 10 layer filled at (5, 5) with a solid color.
ScenarioFills ==
    {[layer |-> NewSurface(10, 10), x |-> 5, y |-> 5, color |-> c] :
        c \in FillColors \ {TRANSPARENT}}

FillArgs ==
    UNION {{[layer |-> l, x |-> x, y |-> y, color |-> c] :
               x \in 0..(l.w - 1), y \in 0..(l.h - 1), c \in FillColors} :
              l \in FillLayers}
    \cup ScenarioFills

InitFill ==
    /\ EditorInit
    /\ fillArg \in {<<a>> : a \in FillArgs}
    /\ fillOut = <<>>
    /\ ManagerInit /\ ImportIdle /\ ServerInit /\ CallIdle

\* floodFill(x, y, color) on the layer of fillArg.
FillOnce ==
    /\ fillArg # <<>>
    /\ fillOut = <<>>
    /\ LET a == fillArg[1]
       IN  fillOut' = <<floodFill(a.layer, a.layer.w, a.layer.h, a.x, a.y, a.color)>>
    /\ UNCHANGED <<editorVars, fillArg, managerVars, importVars, callVars, serverVars>>

\* The same floodFill(x, y, color) again, on the layer the first call left.
FillTwice ==
    /\ Len(fillOut) = 1
    /\ LET a == fillArg[1]
       IN  fillOut' = Append(fillOut, floodFill(fillOut[1], a.layer.w, a.layer.h,
                                                a.x, a.y, a.color))
    /\ UNCHANGED <<editorVars, fillArg, managerVars, importVars, callVars, serverVars>>

NextFill == FillOnce \/ FillTwice

SpecFill == InitFill /\ [][NextFill]_vars

---------------------------------------------------------------------------
(* Editing and saving an image of the asset list.                          *)

\* The smallest size an import accepts.
MinSize == 16

\* A MinSize x MinSize image of two colors: the first pixel black, the
\* others white.
TwoTone ==
    [w |-> MinSize, h |-> MinSize,
     data |-> [i \in 1..(MinSize * MinSize) |-> IF i = 1 THEN BlackPx ELSE WhitePx]]

\* The record an import of TwoTone leaves in the asset list.
TwoToneRecord ==
    LET analysis == analyzeImage(TwoTone, FALSE, 30)
    IN  ImageRecord([name |-> <<"a", ".", "p", "n", "g">>, dataUrl |-> TwoTone,
                     width |-> analysis.width, height |-> analysis.height,
                     colors |-> analysis.colors, colorMap |-> analysis.colorMap],
                    "root")

InitSave ==
    /\ EditorInit /\ FillIdle /\ ImportIdle /\ ServerInit /\ CallIdle
    /\ images = <<TwoToneRecord>>
    /\ masterPalette = updateMasterPalette(<<>>, TwoToneRecord.colors)
    /\ selectedImage = 0

\* The pixel the pointer presses in these sessions: the black one.
SavePoints == {<<0, 0>>}

NextSave ==
    \/ \E i \in 1..Len(images) : ~modalActive /\ pending = {} /\ selectImage(i)
    \* the sessions open an image that no session has saved yet
    \/ selectedImage # 0 /\ images[selectedImage].dataUrl = TwoTone /\ showPixelEditor
    \/ \E img \in pending : ImgOnload(img)
    \/ \E tool \in {"pencil", "eraser", "crop"} : Idle /\ SelectTool(tool)
    \/ \E color \in UserColors : Idle /\ SetPrimaryColor(color)
    \/ \E pt \in SavePoints : Idle /\ Room /\ onMouseDown(pt[1], pt[2], FALSE)
    \/ \E pt \in SavePoints : isDrawing /\ onMouseUp(pt[1], pt[2])
    \/ cropMode /\ cropRect[1].width = canvasW /\ handleCropResize("e", -1, 0)
    \/ Room /\ confirmCrop
    \/ Idle /\ save
    \/ Idle /\ Close

SpecSave == InitSave /\ [][NextSave]_vars

---------------------------------------------------------------------------
(* Properties of the history.                                              *)

\* The live layer stack and the active layer, as a state object: the ids,
\* names and visibility of the layers, their surfaces (dimensions and
\* pixels) and currentLayerIndex.
LiveState ==
    [layers |-> [i \in 1..Len(layers) |->
                    [id |-> layers[i].id, name |-> layers[i].name,
                     visible |-> layers[i].visible,
                     imageData |-> layers[i].canvas]],
     currentLayerIndex |-> currentLayerIndex]

\* A step of undo() or redo() that moves the cursor.
UndoStep == modalActive /\ history' = history /\ historyIndex' = historyIndex - 1
RedoStep == modalActive /\ history' = history /\ historyIndex' = historyIndex + 1

\* C1: after N commits on a history that held only the initial snapshot, the
\* undo() that brings the cursor back to 0 leaves the live layer stack in the
\* state recorded in the initial snapshot, and the redo() that brings the
\* cursor to the newest snapshot leaves it in the state after the N-th commit.
C1_UndoRedoInverse ==
    [][ /\ (UndoStep /\ historyIndex' = 0) => LiveState' = history[1]
        /\ (RedoStep /\ historyIndex' = Len(history) - 1)
              => LiveState' = history[Len(history)] ]_vars

\* C2: while the editor is open the history holds between 1 and 50 snapshots
\* and the cursor is the index of one of them.
C2_HistoryBounds ==
    modalActive =>
        /\ Len(history) >= 1
        /\ Len(history) <= 50
        /\ historyIndex >= 0
        /\ historyIndex <= Len(history) - 1

\* The history is full, the cursor is on its newest snapshot and the initial
\* snapshot (one layer) has aged out.
C2_Witness ==
    /\ modalActive
    /\ Len(history) = maxHistory
    /\ historyIndex = maxHistory - 1
    /\ Len(history[1].layers) = 2

\* The operations of the long sessions that call saveHistory.
CommitLong ==
    \/ \E img \in Images : ImgOnload(img)
    \/ addLayer
    \/ Len(layers) > 1 /\ deleteLayer

\* C3: saveHistory with cursor c on history h yields h[0..c] followed by the
\* new snapshot, without its oldest entry exactly when that makes 51
\* entries; the cursor is then the index of the new, last snapshot (so a
\* redo() right after it finds nothing to redo).
C3_SaveHistory ==
    [][ CommitLong =>
            LET kept == SubSeq(history, 1, historyIndex + 1)
                full == Append(kept, LiveState')
            IN  /\ history' = IF Len(full) = 51 THEN Tail(full) ELSE full
                /\ historyIndex' = Len(history') - 1
                /\ historyIndex' >= Len(history') - 1 ]_vars

\* A history of two snapshots whose first is not an initial snapshot: the
\* initial snapshot aged out of the full history, and a later snapshot
\* discarded everything after the cursor.
C3_Witness ==
    /\ modalActive
    /\ Len(history) = 2
    /\ historyIndex = 1
    /\ Len(history[1].layers) = 2

\* C4: an undo() or redo() that moves the cursor leaves the live layer stack
\* equal to the snapshot at the new cursor in full: the layers with their
\* ids and visibility, the dimensions and the pixels of every surface, and
\* currentLayerIndex.
C4_RestoresSnapshot ==
    [][ (UndoStep \/ RedoStep) => LiveState' = history[historyIndex' + 1] ]_vars

\* C5: while the editor is open, a step leaves every stored snapshot as it
\* was and where it was, except that a new snapshot replaces the ones after
\* the cursor and, in a full history, pushes out the oldest one.
C5_SnapshotsImmutable ==
    [][ (modalActive /\ modalActive') =>
            \/ history' = history
            \/ /\ Len(history') >= 1
               /\ LET kept == SubSeq(history, 1, historyIndex + 1)
                      old == SubSeq(history', 1, Len(history') - 1)
                  IN  \/ old = kept
                      \/ Len(kept) = maxHistory /\ old = Tail(kept) ]_vars

\* The cursor is back on the initial snapshot, a stroke is changing the live
\* layers, and both stored snapshots differ from the live state.
C5_Witness ==
    /\ modalActive
    /\ Len(history) = 2
    /\ historyIndex = 0
    /\ isDrawing
    /\ LiveState # history[1]
    /\ LiveState # history[2]

\* The steps that end a committing operation.
DrawTools == {"pencil", "eraser", "line", "rectangle", "circle"}
StrokeEnd == modalActive /\ isDrawing /\ ~isDrawing' /\ currentTool \in DrawTools
EffectiveFill ==
    \E p \in Points :
        /\ modalActive
        /\ ~cropMode
        /\ currentTool = "fill"
        /\ InSurface(NewSurface(canvasW, canvasH), p[1], p[2])
        /\ LET px == PixelAt(layers[currentLayerIndex + 1].canvas, p[1], p[2])
           IN  IF primaryColor = TRANSPARENT THEN px[4] >= 128
               ELSE px # Opaque(hexToRgb(primaryColor))
        /\ onMouseDown(p[1], p[2], FALSE)
CropConfirm == cropRect # <<>> /\ confirmCrop
LayerAdd == addLayer
LayerDelete == Len(layers) > 1 /\ deleteLayer
LassoMove == lassoContent # <<>> /\ moveLassoContent
LassoCut == cutLassoContent

\* Exactly one snapshot is appended (the history is not full).
OneSnapshot ==
    /\ history' = Append(SubSeq(history, 1, historyIndex + 1), LiveState')
    /\ historyIndex' = historyIndex + 1

\* C6: every committing operation appends exactly one snapshot: the release
\* (or mouse leave) that ends a stroke or a shape, an effective fill, a crop
\* confirm, a layer add, a layer delete, a lasso move and a lasso cut append
\* one, and the presses and moves of a drag append none.
C6_OneSnapshotPerCommit ==
    [][ /\ (\/ StrokeEnd \/ EffectiveFill \/ CropConfirm \/ LayerAdd
            \/ LayerDelete \/ LassoMove \/ LassoCut) => OneSnapshot
        /\ isDrawing' => UNCHANGED <<history, historyIndex>> ]_vars

\* A crop confirm has committed: the canvas is narrower than the image and
\* the history holds the initial snapshot and the one of the crop.
C6_Witness ==
    /\ modalActive
    /\ canvasW < ImgW
    /\ Len(history) = 2
    /\ historyIndex = 1

\* C7: while the editor is open the layer stack holds at least one layer,
\* and deleteLayer() on a single layer leaves the stack as it was.
C7_AtLeastOneLayer ==
    /\ [](modalActive => Len(layers) >= 1)
    /\ [][(Len(layers) = 1 /\ deleteLayer) => layers' = layers]_vars

\* A second layer was added and a layer was deleted again.
C7_Witness ==
    /\ modalActive
    /\ Len(layers) = 1
    /\ historyIndex = 2
    /\ Len(history[2].layers) = 2

\* A press of the fill tool on a pixel of the canvas that already has the
\* fill color (for the TRANSPARENT fill: that is already transparent).
NoOpFill ==
    \E p \in Points :
        /\ modalActive
        /\ ~cropMode
        /\ currentTool = "fill"
        /\ InSurface(NewSurface(canvasW, canvasH), p[1], p[2])
        /\ LET px == PixelAt(layers[currentLayerIndex + 1].canvas, p[1], p[2])
           IN  IF primaryColor = TRANSPARENT THEN px[4] = 0
               ELSE px = Opaque(hexToRgb(primaryColor))
        /\ onMouseDown(p[1], p[2], FALSE)

\* C8: a fill on a start pixel that already has the fill color, deleteLayer()
\* on a single layer, undo() at cursor 0 and redo() at the newest snapshot
\* leave the layers, currentLayerIndex, the history and the cursor as they
\* were.
C8_NoOps ==
    [][ (\/ NoOpFill
         \/ Len(layers) = 1 /\ deleteLayer
         \/ historyIndex = 0 /\ undo
         \/ historyIndex = Len(history) - 1 /\ redo)
        => UNCHANGED <<layers, currentLayerIndex, history, historyIndex>> ]_vars

\* The fill tool was pressed at (startX, startY), a pixel that already has
\* the primary color, with a single layer and the cursor on the first and
\* only snapshot: each of the four no-ops applies.
C8_Witness ==
    /\ modalActive
    /\ currentTool = "fill"
    /\ ~isDrawing
    /\ startX = 1
    /\ Len(layers) = 1
    /\ Len(history) = 1
    /\ historyIndex = 0
    /\ InSurface(NewSurface(canvasW, canvasH), startX, startY)
    /\ LET px == PixelAt(layers[1].canvas, startX, startY)
       IN  IF primaryColor = TRANSPARENT THEN px[4] = 0
           ELSE px = Opaque(hexToRgb(primaryColor))

---------------------------------------------------------------------------
(* Properties of the flood fill.                                           *)

\* The indices of the pixels of layer l that are 4-connected to pixel i
\* through pixels of the RGBA of pixel i.
Adjacent(l, i, j) ==
    LET xi == (i - 1) % l.w
        yi == (i - 1) \div l.w
        xj == (j - 1) % l.w
        yj == (j - 1) \div l.w
    IN  Abs(xi - xj) + Abs(yi - yj) = 1

RECURSIVE Grow(_, _, _)
Grow(l, rgba, set) ==
    LET more == set \cup {j \in 1..(l.w * l.h) :
                            /\ l.data[j] = rgba
                            /\ \E i \in set : Adjacent(l, i, j)}
    IN  IF more = set THEN set ELSE Grow(l, rgba, more)

Region(l, x, y) == Grow(l, PixelAt(l, x, y), {y * l.w + x + 1})

\* The pixel a fill color stands for.
Paint(c) == IF c = TRANSPARENT THEN Clear ELSE Opaque(hexToRgb(c))

\* The layer after a fill that paints exactly the region of (x, y).
RegionPainted(l, x, y, c) ==
    [l EXCEPT !.data = [i \in 1..(l.w * l.h) |->
                           IF i \in Region(l, x, y) THEN Paint(c) ELSE l.data[i]]]

\* C9 as stated: floodFill(x, y, c) changes exactly the pixels 4-connected to
\* (x, y) through pixels of the start pixel's RGBA, each to c with alpha 255
\* or, for TRANSPARENT, to fully transparent, and no other pixel.
C9_Original ==
    fillOut # <<>> =>
        LET a == fillArg[1]
        IN  fillOut[1] = RegionPainted(a.layer, a.x, a.y, a.color)

\* C9: floodFill(x, y, c) changes exactly the pixels 4-connected to (x, y)
\* through pixels of the start pixel's RGBA, each to c with alpha 255 or, for
\* TRANSPARENT on a start pixel of alpha 128 or more, to fully transparent,
\* and no other pixel; a TRANSPARENT fill on a start pixel of alpha below 128
\* changes nothing.  Filling the transparent 10 x 10 layer at (5, 5) with a
\* solid color sets all 100 pixels to it.
C9_FloodFill ==
    fillOut # <<>> =>
        LET a == fillArg[1]
            start == PixelAt(a.layer, a.x, a.y)
        IN  /\ fillOut[1] = IF a.color = TRANSPARENT /\ start[4] < 128
                            THEN a.layer
                            ELSE RegionPainted(a.layer, a.x, a.y, a.color)
            /\ a \in ScenarioFills =>
                  /\ Len(fillOut[1].data) = 100
                  /\ \A i \in 1..100 : fillOut[1].data[i] = Paint(a.color)

\* A fill that painted a region of more than one pixel and left other pixels
\* of the layer alone.
C9_Witness ==
    /\ fillOut # <<>>
    /\ LET a == fillArg[1]
           n == Cardinality(Region(a.layer, a.x, a.y))
       IN  /\ fillOut[1] # a.layer
           /\ n > 1
           /\ n < a.layer.w * a.layer.h

\* C10: floodFill(x, y, c) applied twice leaves the layer as floodFill(x, y, c)
\* applied once leaves it.
C10_Idempotent == Len(fillOut) = 2 => fillOut[2] = fillOut[1]

\* The fill was applied twice and the first application changed the layer.
C10_Witness ==
    /\ Len(fillOut) = 2
    /\ fillOut[1] # fillArg[1].layer

---------------------------------------------------------------------------
(* Importing files.                                                        *)

MaxFiles == 2

PngFile(name, image) ==
    [name |-> name, type |-> "image/png", readable |-> TRUE, decodes |-> TRUE,
     image |-> image, folder |-> "root"]

\* a.png: 16x16, two colors
GoodFile == PngFile(<<"a", ".", "p", "n", "g">>, TwoTone)

\* b_x2.png: a.png at twice its size
ScaledFile ==
    PngFile(<<"b", "_", "x", "2", ".", "p", "n", "g">>,
            [w |-> 2 * MinSize, h |-> 2 * MinSize,
             data |-> [i \in 1..(4 * MinSize * MinSize) |->
                          IF i \in {1, 2, 2 * MinSize + 1, 2 * MinSize + 2}
                          THEN BlackPx ELSE WhitePx]])

\* c.png: 16x16, one color
OneColorFile ==
    PngFile(<<"c", ".", "p", "n", "g">>,
            [w |-> MinSize, h |-> MinSize,
             data |-> [i \in 1..(MinSize * MinSize) |-> WhitePx]])

\* d.png: 15x15, two colors
SmallFile ==
    PngFile(<<"d", ".", "p", "n", "g">>,
            [w |-> MinSize - 1, h |-> MinSize - 1,
             data |-> [i \in 1..((MinSize - 1) * (MinSize - 1)) |->
                          IF i = 1 THEN BlackPx ELSE WhitePx]])

\* e.png: 16x16, sixteen colors
SixteenColorFile ==
    PngFile(<<"e", ".", "p", "n", "g">>,
            [w |-> MinSize, h |-> MinSize,
             data |-> [i \in 1..(MinSize * MinSize) |->
                          IF i <= 16 THEN <<16 * (i - 1), 0, 0, 255>> ELSE <<0, 0, 0, 255>>]])

\* f.png: not an image the browser decodes
BrokenFile == [GoodFile EXCEPT !.name = <<"f", ".", "p", "n", "g">>, !.decodes = FALSE]

\* g.png: a file whose read fails
UnreadableFile == [GoodFile EXCEPT !.name = <<"g", ".", "p", "n", "g">>, !.readable = FALSE]

\* h.txt
TextFile == [GoodFile EXCEPT !.name = <<"h", ".", "t", "x", "t">>, !.type = "text/plain"]

Files == {GoodFile, ScaledFile, OneColorFile, SmallFile, SixteenColorFile,
          BrokenFile, UnreadableFile, TextFile}

\* The lists a user picks or the server returns.  The server lists PNG files
\* and a failed download ends in img.onerror.
FileLists(kind) ==
    LET from == IF kind = "server" THEN Files \ {UnreadableFile, TextFile} ELSE Files
    IN  UNION {[1..n -> from] : n \in 1..MaxFiles}

\* The asset list is restored from localStorage before autoLoadFromServer.
InitImport ==
    /\ EditorInit /\ FillIdle /\ ImportIdle /\ ServerInit /\ CallIdle
    /\ images \in {<<>>, <<TwoToneRecord>>}
    /\ masterPalette = IF images = <<>> THEN <<>>
                       ELSE updateMasterPalette(<<>>, TwoToneRecord.colors)
    /\ selectedImage = 0

NextImport ==
    \/ \E kind \in {"files", "folder", "server"} :
          \E files \in FileLists(kind) : startImport(kind, files)
    \/ \E i \in reading : readerOnload(i)
    \/ \E d \in decoding : importImgOnload(d)
    \/ \E d \in decoding : importImgOnerror(d)
    \/ \E d \in decoding : analyzeImgOnload(d)

SpecImport == InitImport /\ [][NextImport]_vars

---------------------------------------------------------------------------
(* The scale detection and the downscaling of an import on its own.        *)

ScaleSizes == {15, 16, 20, 32, 40, 64, 80, 128, 160}
ScalePatterns == {0, 1}

\* An image whose pixel at (x, y) names its own position.
PositionImage(width, height, k) ==
    [w |-> width, h |-> height,
     data |-> [i \in 1..(width * height) |->
                  <<(i - 1) % width, (i - 1) \div width, k, 255>>]]

InitScale ==
    /\ EditorInit /\ FillIdle /\ ManagerInit /\ ImportIdle /\ ServerInit
    /\ call \in {<<width, height, k>> :
                    width \in ScaleSizes, height \in ScaleSizes, k \in ScalePatterns}
    /\ result = <<>>

\* The part of img.onload up to the size validation, for the image of call.
detectAndDownscale ==
    /\ result = <<>>
    /\ LET img == PositionImage(call[1], call[2], call[3])
       IN  result' = [detectedScale |-> detectedScale(img.w, img.h),
                      scaled |-> scaledImage(img)]
    /\ UNCHANGED <<editorVars, fillVars, managerVars, importVars, call, serverVars>>

SpecScale == InitScale /\ [][detectAndDownscale]_vars

---------------------------------------------------------------------------
(* analyzeImage on its own.                                                *)

AnalyzeW == 2
AnalyzeH == 2
AnalyzePixels ==
    {Clear, BlackPx, WhitePx, <<0, 0, 0, 127>>, <<0, 0, 0, 128>>, <<255, 0, 0, 255>>}

\* The fully opaque 20x20 two-tone checkerboard.
Checkerboard ==
    [w |-> 20, h |-> 20,
     data |-> [i \in 1..400 |->
                  IF (((i - 1) % 20) + ((i - 1) \div 20)) % 2 = 0 THEN BlackPx ELSE WhitePx]]

InitAnalyze ==
    /\ EditorInit /\ FillIdle /\ ManagerInit /\ ImportIdle /\ ServerInit
    /\ call \in {Checkerboard} \cup
                {[w |-> AnalyzeW, h |-> AnalyzeH, data |-> d] :
                    d \in [1..(AnalyzeW * AnalyzeH) -> AnalyzePixels]}
    /\ result = <<>>

\* analyzeImage(call, quantize, 30)
analyze(quantize) ==
    /\ result = <<>>
    /\ result' = analyzeImage(call, quantize, 30)
    /\ UNCHANGED <<editorVars, fillVars, managerVars, importVars, call, serverVars>>

NextAnalyze == \E quantize \in BOOLEAN : analyze(quantize)

SpecAnalyze == InitAnalyze /\ [][NextAnalyze]_vars

---------------------------------------------------------------------------
(* quantizeColors on its own.                                              *)

MaxColors == 24
DistantColors == 20

\* Color k of the inputs: the first DistantColors are 120 or more apart from
\* each other, the later ones lie at distance 10 from one of the first.
PoolColor(k) ==
    LET g == (k - 1) % DistantColors
        near == IF k > DistantColors THEN 10 ELSE 0
    IN  rgbToHex(120 * (g % 3), 120 * ((g \div 3) % 3), 120 * (g \div 9) + near)

\* Pixel counts for the colors of a map of n colors.
PoolCount(shape, n, k) ==
    CASE shape = "equal" -> 1
      [] shape = "rising" -> k
      [] shape = "falling" -> n + 1 - k
      [] shape = "mixed" -> ((7 * k) % 5) + 1

Thresholds == {-1, 0, 30, 130, 500}

InitQuantize ==
    /\ EditorInit /\ FillIdle /\ ManagerInit /\ ImportIdle /\ ServerInit
    /\ call \in {<<[k \in 1..n |-> [color |-> PoolColor(k),
                                    count |-> PoolCount(shape, n, k)]], threshold>> :
                    n \in 0..MaxColors,
                    shape \in {"equal", "rising", "falling", "mixed"},
                    threshold \in Thresholds}
    /\ result = <<>>

\* quantizeColors(colorMap, threshold) for the call's map and threshold
quantize ==
    /\ result = <<>>
    /\ result' = [palette |-> quantizeColors(call[1], call[2])]
    /\ UNCHANGED <<editorVars, fillVars, managerVars, importVars, call, serverVars>>

SpecQuantize == InitQuantize /\ [][quantize]_vars

---------------------------------------------------------------------------
(* calculatePaletteMatch on its own.                                       *)

MaxPalette == 2

\* Colors of image palettes: the imports store the strings of rgbToHex, the
\* editor's save stores them in upper case.  #130000 is at distance 19 from
\* black, #140000 at distance 20.
ImageColors ==
    {rgbToHex(0, 0, 0), rgbToHex(255, 255, 255), toUpperCase(rgbToHex(255, 255, 255)),
     rgbToHex(19, 0, 0), rgbToHex(20, 0, 0)}

\* Colors of the loaded palette, which is stored in upper case.
LoadedColors == {toUpperCase(rgbToHex(0, 0, 0)), toUpperCase(rgbToHex(255, 255, 255))}

InitMatch ==
    /\ EditorInit /\ FillIdle /\ ManagerInit /\ ImportIdle /\ ServerInit
    /\ call \in {<<imagePalette, loaded>> :
                    imagePalette \in UNION {[1..n -> ImageColors] : n \in 0..MaxPalette},
                    loaded \in UNION {[1..n -> LoadedColors] : n \in 0..MaxPalette}}
    /\ result = <<>>

\* calculatePaletteMatch(imagePalette) with the loaded palette of the call
paletteMatch ==
    /\ result = <<>>
    /\ result' = [matchScore |-> calculatePaletteMatch(call[1], call[2])]
    /\ UNCHANGED <<editorVars, fillVars, managerVars, importVars, call, serverVars>>

SpecMatch == InitMatch /\ [][paletteMatch]_vars

---------------------------------------------------------------------------
(* drawLine on its own.                                                    *)

LineSize == 10
LineCoords == -1..4

\* The layer a line is drawn on: empty for the pencil, black for the eraser.
LineLayers(isEraser) ==
    LET layer == NewLayer(1, "Layer 1", LineSize, LineSize)
    IN  << IF isEraser
           THEN [layer EXCEPT !.canvas = fillRect(@, Black, 0, 0, LineSize, LineSize)]
           ELSE layer >>

InitLine ==
    /\ EditorInit /\ FillIdle /\ ManagerInit /\ ImportIdle /\ ServerInit
    /\ call \in {<<x0, y0, x1, y1, isEraser>> :
                    x0 \in LineCoords, y0 \in LineCoords,
                    x1 \in LineCoords, y1 \in LineCoords, isEraser \in BOOLEAN}
    /\ result = <<>>

\* drawLine(x0, y0, x1, y1, '#000000', isEraser) on the layer of the call
line ==
    /\ result = <<>>
    /\ result' = [plotted |-> LinePoints(call[1], call[2], call[3], call[4]),
                  canvas |-> drawLine(LineLayers(call[5]), 0, LineSize, LineSize,
                                      call[1], call[2], call[3], call[4],
                                      Black, call[5])[1].canvas]
    /\ UNCHANGED <<editorVars, fillVars, managerVars, importVars, call, serverVars>>

SpecLine == InitLine /\ [][line]_vars

---------------------------------------------------------------------------
(* Lasso sessions: a path over the corners of a square, the floating       *)
(* content dragged, then moved, cut or dropped.                            *)

\* The corners of the lasso paths: the polygon over all four holds the
\* pixels with both coordinates in LassoLo..(LassoHi - 1).
LassoLo == 1
LassoHi == 4
LassoCorners == {<<LassoLo, LassoLo>>, <<LassoHi, LassoLo>>,
                 <<LassoHi, LassoHi>>, <<LassoLo, LassoHi>>}
MaxLassoPoints == 4
LassoDrags == {<<2, 2>>, <<1, 0>>}
MaxLassoX == 3

\* A pixel that names its position.
NamedPx(i) == <<(i - 1) % MinSize, (i - 1) \div MinSize, 0, 255>>

InLassoSquare(i) ==
    /\ (i - 1) % MinSize >= LassoLo /\ (i - 1) % MinSize < LassoHi
    /\ (i - 1) \div MinSize >= LassoLo /\ (i - 1) \div MinSize < LassoHi

\* The images of the sessions: a block of opaque pixels on an empty layer, a
\* fully opaque image, a hole in a white image, and a block of pixels of
\* alpha 100 on a white image.
LassoRasters ==
    {[w |-> MinSize, h |-> MinSize, data |-> d] :
        d \in {[i \in 1..(MinSize * MinSize) |-> IF InLassoSquare(i) THEN NamedPx(i) ELSE Clear],
               [i \in 1..(MinSize * MinSize) |-> NamedPx(i)],
               [i \in 1..(MinSize * MinSize) |-> IF InLassoSquare(i) THEN Clear ELSE WhitePx],
               [i \in 1..(MinSize * MinSize) |->
                   IF InLassoSquare(i) THEN <<0, 0, 0, 100>> ELSE WhitePx]}}

\* The records of the images; the sessions do not read their colors.
LassoRecord(raster) ==
    ImageRecord([name |-> <<"a", ".", "p", "n", "g">>, dataUrl |-> raster,
                 width |-> raster.w, height |-> raster.h,
                 colors |-> <<>>, colorMap |-> <<>>], "root")

\* The pixels of the active layer in the last snapshot.
LassoOriginal == history[historyIndex + 1].layers[currentLayerIndex + 1].imageData

InitLasso ==
    /\ EditorInit /\ FillIdle /\ ImportIdle /\ ServerInit /\ CallIdle
    /\ images \in {<<LassoRecord(raster)>> : raster \in LassoRasters}
    /\ masterPalette = <<>>
    /\ selectedImage = 0

NextLasso ==
    \/ ~modalActive /\ pending = {} /\ selectImage(1)
    \/ selectedImage # 0 /\ showPixelEditor
    \/ \E img \in pending : ImgOnload(img)
    \/ Idle /\ SelectTool("lasso")
    \* a lasso starts on the layer as the last snapshot holds it
    \/ \E p \in LassoCorners :
          /\ modalActive
          /\ Idle /\ Room /\ currentTool = "lasso" /\ lassoContent = <<>>
          /\ layers[currentLayerIndex + 1].canvas.data = LassoOriginal.data
          /\ onMouseDown(p[1], p[2], FALSE)
    \/ \E p \in LassoCorners :
          /\ isDrawing /\ Len(lassoPoints) < MaxLassoPoints
          /\ [x |-> p[1], y |-> p[2]] # lassoPoints[Len(lassoPoints)]
          /\ onMouseMove(p[1], p[2])
    \/ \E p \in LassoCorners :
          /\ isDrawing /\ [x |-> p[1], y |-> p[2]] = lassoPoints[Len(lassoPoints)]
          /\ onMouseUp(p[1], p[2])
    \/ \E d \in LassoDrags :
          /\ lassoContent # <<>>
          /\ lassoContent[1].x + d[1] <= MaxLassoX
          /\ dragLassoContent(d[1], d[2])
    \/ Idle /\ Room /\ moveLassoContent
    \/ Idle /\ Room /\ cutLassoContent
    \/ Idle /\ exitLassoMode
    \* the sessions end without a floating content
    \/ Idle /\ lassoContent = <<>> /\ Close

SpecLasso == InitLasso /\ [][NextLasso]_vars

---------------------------------------------------------------------------
(* Strokes past the edges of the canvas: every drawing tool used with      *)
(* pointer coordinates from one pixel before the canvas to one pixel       *)
(* after it, on one layer or two.                                          *)

EdgeW == 2
EdgeH == 2
\* Lasso points of one drag.
MaxEdgePoints == 3

\* The pointer is one pixel before the canvas, on its first pixel or one
\* pixel after it.
EdgePoints == {<<x, y>> : x \in {-1, 0, EdgeW}, y \in {-1, 0, EdgeH}}

\* An image whose pixels name their place.
EdgeImages ==
    {[width |-> EdgeW, height |-> EdgeH,
      dataUrl |-> [w |-> EdgeW, h |-> EdgeH,
                   data |-> [i \in 1..(EdgeW * EdgeH) |-> <<i, 0, 0, 255>>]],
      palette |-> <<>>]}

EdgeTools == Tools \ {"crop"}

\* A session has one stroke: the history holds the snapshot of the load
\* and the one of the layer added, if one was.
EdgeRoom == historyIndex + 1 = Len(layers) /\ Len(history) = Len(layers)

\* The tool, the fill option and the layers are chosen before the first
\* stroke, which starts on the layers as the last snapshot holds them.
Untouched ==
    /\ modalActive /\ Idle /\ EdgeRoom
    /\ lassoContent = <<>>
    /\ primaryColor = Black
    /\ \A i \in 1..Len(layers) :
          layers[i].canvas.data = history[historyIndex + 1].layers[i].imageData.data

NextEdge ==
    \/ \E img \in EdgeImages : LoadImage(img)
    \/ \E img \in pending : ImgOnload(img)
    \/ \E tool \in EdgeTools : Untouched /\ ~fillShape /\ SelectTool(tool)
    \/ \E b \in BOOLEAN :
          Untouched /\ currentTool \in {"rectangle", "circle"} /\ SetFillShape(b)
    \/ Untouched /\ Len(layers) < MaxLayers /\ addLayer
    \/ \E index \in 0..(MaxLayers - 1) : Untouched /\ SelectLayer(index)
    \/ \E p \in EdgePoints, alt \in BOOLEAN :
          Untouched /\ onMouseDown(p[1], p[2], alt)
    \/ \E p \in EdgePoints :
          /\ isDrawing
          /\ currentTool = "lasso" => Len(lassoPoints) < MaxEdgePoints
          /\ onMouseMove(p[1], p[2])
    \/ \E p \in EdgePoints : isDrawing /\ onMouseUp(p[1], p[2])
    \/ Idle /\ EdgeRoom /\ lassoContent # <<>> /\ moveLassoContent
    \/ Idle /\ lassoContent # <<>> /\ exitLassoMode

SpecEdge == Init /\ [][NextEdge]_vars

---------------------------------------------------------------------------
(* The color codec on its own: rgbToHex, then hexToRgb of its result.      *)

Channels == 0..255
\* The values the two other channels take while one runs over Channels.
ChannelEdges == {0, 15, 16, 255}

InitCodec ==
    /\ EditorInit /\ FillIdle /\ ManagerInit /\ ImportIdle /\ ServerInit
    /\ call \in {<<r, g, b>> : r \in Channels, g \in ChannelEdges, b \in ChannelEdges}
               \cup {<<r, g, b>> : r \in ChannelEdges, g \in Channels, b \in ChannelEdges}
               \cup {<<r, g, b>> : r \in ChannelEdges, g \in ChannelEdges, b \in Channels}
    /\ result = <<>>

\* rgbToHex(r, g, b)
encode ==
    /\ result = <<>>
    /\ result' = <<rgbToHex(call[1], call[2], call[3])>>
    /\ UNCHANGED <<editorVars, fillVars, managerVars, importVars, call, serverVars>>

\* hexToRgb of the string rgbToHex returned
decode ==
    /\ Len(result) = 1
    /\ result' = Append(result, hexToRgb(result[1]))
    /\ UNCHANGED <<editorVars, fillVars, managerVars, importVars, call, serverVars>>

NextCodec == encode \/ decode

SpecCodec == InitCodec /\ [][NextCodec]_vars

---------------------------------------------------------------------------
(* Requests to the server, in any order.                                   *)

\* The file names, folders and data URLs of the requests: the folder '..'
\* is the parent of the asset directory.
RequestNames == {"", "a.png"}
NewNames == {"", "a.png", "b.png"}
RequestFolders == {<<>>, <<"sub">>, <<"..">>}
NewFolderNames == {"", "sub"}
RequestDataUrls ==
    {<<>>, <<[type |-> "image/png;base64", text |-> "bmV3"]>>,
     <<[type |-> "text/plain", text |-> "bmV3"]>>}
\* The files and directories on the disk of an explored run.
MaxDiskEntries == 6

notServerVars == <<editorVars, fillVars, managerVars, importVars, callVars>>

\* The end of every explored request: the disk stays within MaxDiskEntries
\* and nothing but the server changes.
Served ==
    /\ Cardinality(DOMAIN disk') <= MaxDiskEntries
    /\ UNCHANGED notServerVars

NextServer ==
    \/ getImages /\ Served
    \/ getFolders /\ Served
    \/ \E filename \in RequestNames, dataUrl \in RequestDataUrls, folder \in RequestFolders :
          saveImage(filename, dataUrl, folder) /\ Served
    \/ \E filename \in RequestNames, folder \in RequestFolders :
          deleteImage(filename, folder) /\ Served
    \/ \E folderName \in NewFolderNames, parentFolder \in RequestFolders :
          createFolder(folderName, parentFolder) /\ Served
    \/ \E filename \in RequestNames, fromFolder \in RequestFolders, toFolder \in RequestFolders :
          moveImage(filename, fromFolder, toFolder) /\ Served
    \/ \E oldFilename \in RequestNames, newFilename \in NewNames, folder \in RequestFolders :
          renameImage(oldFilename, newFilename, folder) /\ Served
    \/ \E sourceFilename \in RequestNames, destFilename \in NewNames,
          folder \in RequestFolders :
          copyImage(sourceFilename, destFilename, folder) /\ Served
    \/ saveAssignmentData("{}") /\ Served

SpecServer == Init /\ [][NextServer]_vars

---------------------------------------------------------------------------
(* The layer panel: layers added, deleted and selected, with undo and      *)
(* redo, on stacks of up to MaxPanelLayers layers.                         *)

MaxPanelLayers == 3
MaxPanelSnapshots == 5

NextPanel ==
    \/ \E img \in Images : LoadImage(img)
    \/ \E img \in pending : ImgOnload(img)
    \/ Close
    \/ Len(layers) < MaxPanelLayers /\ Len(history) < MaxPanelSnapshots /\ addLayer
    \/ Len(history) < MaxPanelSnapshots /\ deleteLayer
    \/ \E index \in 0..(MaxPanelLayers - 1) : SelectLayer(index)
    \/ undo
    \/ redo

SpecPanel == Init /\ [][NextPanel]_vars

---------------------------------------------------------------------------
(* Layers one over the other: an image with a half-transparent pixel, a    *)
(* second layer, pencil strokes, the lasso, and layers hidden and shown.   *)

MaxComposeSnapshots == 3

\* An image of a pixel of alpha 100 and a white pixel.
ComposeImages ==
    {[width |-> ImgW, height |-> ImgH,
      dataUrl |-> [w |-> ImgW, h |-> ImgH,
                   data |-> [i \in 1..(ImgW * ImgH) |->
                                IF i = 1 THEN SemiBlack ELSE WhitePx]],
      palette |-> <<>>]}

ComposeRoom == historyIndex + 1 < MaxComposeSnapshots

\* this.canvas after composeLayers(), which ends every handler that changes
\* a layer.
Composed == composeLayers(layers, canvasW, canvasH)

NextCompose ==
    \/ \E img \in ComposeImages : LoadImage(img)
    \/ \E img \in pending : ImgOnload(img)
    \/ \E tool \in {"pencil", "lasso"} : Idle /\ lassoContent = <<>> /\ SelectTool(tool)
    \/ Idle /\ ComposeRoom /\ Len(layers) < MaxLayers /\ addLayer
    \/ \E index \in 0..(MaxLayers - 1) : Idle /\ SelectLayer(index)
    \/ \E index \in 0..(MaxLayers - 1) : Idle /\ ToggleVisibility(index)
    \/ \E p \in MousePoints :
          /\ modalActive /\ Idle /\ ComposeRoom
          /\ PointerAt(p[1], p[2])
          /\ onMouseDown(p[1], p[2], FALSE)
    \/ \E p \in MousePoints :
          /\ isDrawing /\ currentTool = "lasso"
          /\ PointerAt(p[1], p[2])
          /\ onMouseMove(p[1], p[2])
    \/ \E p \in Points : isDrawing /\ onMouseUp(p[1], p[2])
    \/ \E dx \in Deltas :
          /\ lassoContent # <<>>
          /\ lassoContent[1].x + dx \in 0..(ImgW - 1)
          /\ dragLassoContent(dx, 0)
    \/ Idle /\ ComposeRoom /\ lassoContent # <<>> /\ moveLassoContent

SpecCompose == Init /\ [][NextCompose]_vars

---------------------------------------------------------------------------
(* Shape drags: a line, a rectangle or a circle pressed, dragged and       *)
(* released, with tool shortcuts typed in the middle of a drag.            *)

ShapeTools == {"line", "rectangle", "circle"}

\* The tools that have a key in onKeyDown's toolKeys; the key clicks the
\* tool's button, at any moment, also while a mouse button is held.
KeyTools == {"pencil", "eraser", "picker", "fill", "line", "rectangle",
             "circle", "crop"}

\* The pointer of a shape drag: on the canvas, before it and after it.
ShapePoints == {<<0, 0>>, <<1, 1>>, <<-1, 0>>, <<EdgeW, EdgeH>>}

NextShape ==
    \/ \E img \in EdgeImages : LoadImage(img)
    \/ \E img \in pending : ImgOnload(img)
    \/ \E tool \in ShapeTools : Untouched /\ ~fillShape /\ SelectTool(tool)
    \/ \E tool \in KeyTools : isDrawing /\ SelectTool(tool)
    \/ \E b \in BOOLEAN :
          Untouched /\ currentTool \in {"rectangle", "circle"} /\ SetFillShape(b)
    \/ Untouched /\ Len(layers) < MaxLayers /\ addLayer
    \/ \E index \in 0..(MaxLayers - 1) : Untouched /\ SelectLayer(index)
    \/ \E p \in ShapePoints : Untouched /\ onMouseDown(p[1], p[2], FALSE)
    \/ \E p \in ShapePoints : isDrawing /\ onMouseMove(p[1], p[2])
    \/ \E p \in ShapePoints : isDrawing /\ onMouseUp(p[1], p[2])

SpecShape == Init /\ [][NextShape]_vars

---------------------------------------------------------------------------
(* Crop: the crop rectangle dragged and resized, applied and cancelled, on *)
(* one layer or two, and the editor closed and opened on another image.    *)

\* The sizes (width = height) of the images opened.
CropSizes == {2, 3}

\* Images whose pixels name their place.
CropImages ==
    {[width |-> n, height |-> n,
      dataUrl |-> [w |-> n, h |-> n,
                   data |-> [i \in 1..(n * n) |-> <<i, 0, 0, 255>>]],
      palette |-> <<>>] : n \in CropSizes}

\* Snapshots of one session before a crop is applied.
MaxCropSnapshots == 3

CropRoom == historyIndex + 1 < MaxCropSnapshots

\* The upper layer has a pencil stroke.
StrokeDrawn ==
    /\ Len(layers) > 1
    /\ \E k \in DOMAIN layers[2].canvas.data : layers[2].canvas.data[k] = BlackPx

NextCrop ==
    \/ \E img \in CropImages : LoadImage(img)
    \/ \E img \in pending : ImgOnload(img)
    \/ Idle /\ Close
    \/ \E tool \in {"pencil", "crop"} : Idle /\ SelectTool(tool)
    \/ Idle /\ CropRoom /\ Len(layers) < MaxLayers /\ addLayer
    \/ \E index \in 0..(MaxLayers - 1) : Idle /\ ToggleVisibility(index)
    \/ modalActive /\ Idle /\ CropRoom /\ Len(layers) > 1 /\ onMouseDown(1, 1, FALSE)
    \/ isDrawing /\ onMouseUp(1, 1)
    \/ \E dx \in Deltas, dy \in Deltas : handleCropDrag(dx, dy)
    \/ \E handle \in CropHandles, dx \in Deltas, dy \in Deltas :
          handleCropResize(handle, dx, dy)
    \/ exitCropMode
    \/ (CropRoom \/ (StrokeDrawn /\ historyIndex < MaxCropSnapshots)) /\ confirmCrop

SpecCrop == Init /\ [][NextCrop]_vars

---------------------------------------------------------------------------
(* analyzeImage around the limit of 15 colors: one-row images of 13 to 18  *)
(* distinct colors, analysed with and without quantize.                    *)

PolicyMinColors == 13
PolicyMaxColors == 18
PolicyOffsets == 0..5

\* The n colors of an image: n - 1 colors that are far apart, and one at
\* distance 10 from the first of them.
PolicyColor(n, off, i) ==
    hexToRgb(PoolColor(IF i = n THEN off + 1 + DistantColors ELSE off + i))

\* The image: its n colors, then a pixel that repeats the first color or
\* a pixel of alpha 127 in a color of its own, then a transparent pixel.
PolicyImage(n, off, extra) ==
    [w |-> n + 2, h |-> 1,
     data |-> [i \in 1..(n + 2) |->
                  IF i <= n THEN Opaque(PolicyColor(n, off, i))
                  ELSE IF i = n + 1
                  THEN (IF extra = "repeat" THEN Opaque(PolicyColor(n, off, 1))
                        ELSE <<1, 2, 3, 127>>)
                  ELSE Clear]]

InitPolicy ==
    /\ EditorInit /\ FillIdle /\ ManagerInit /\ ImportIdle /\ ServerInit
    /\ call \in {[n |-> n, off |-> off, extra |-> extra, quantize |-> q] :
                    n \in PolicyMinColors..PolicyMaxColors, off \in PolicyOffsets,
                    extra \in {"repeat", "faint"}, q \in BOOLEAN}
    /\ result = <<>>

\* analyzeImage(img, quantize, 30) for the image and the flag of call
analyzeCall ==
    /\ result = <<>>
    /\ result' = analyzeImage(PolicyImage(call.n, call.off, call.extra),
                              call.quantize, 30)
    /\ UNCHANGED <<editorVars, fillVars, managerVars, importVars, call, serverVars>>

SpecPolicy == InitPolicy /\ [][analyzeCall]_vars

---------------------------------------------------------------------------
(* Properties of the asset list and of the imports.                        *)

\* Whether an image record is within the limits of the editor's images.
RecordInRange(rec) ==
    /\ rec.width >= 16 /\ rec.width <= 32
    /\ rec.height >= 16 /\ rec.height <= 32
    /\ Len(rec.palette) >= 2 /\ Len(rec.palette) <= 15

\* C11: every image record of the asset list has width and height in
\* [16, 32] and a palette of 2 to 15 colors, whatever was edited and saved:
\* a save whose result would fall outside leaves the record as it was.
C11_RecordsInRange == \A i \in 1..Len(images) : RecordInRange(images[i])

\* C12: an import step that changes the asset list appends exactly one record,
\* whose final (post-downscale) width and height are in [16, 32] and whose
\* palette has 2 to 15 colors; a step that adds no record leaves the master
\* palette as it was.
C12_ImportValidates ==
    [][/\ images' # images =>
            /\ Len(images') = Len(images) + 1
            /\ SubSeq(images', 1, Len(images)) = images
            /\ RecordInRange(images'[Len(images')])
            /\ images'[Len(images')].dataUrl.w = images'[Len(images')].width
            /\ images'[Len(images')].dataUrl.h = images'[Len(images')].height
       /\ images' = images => masterPalette' = masterPalette]_vars

\* A folder import that added one file and rejected another has finished.
C12_Witness ==
    /\ importKind = "folder" /\ importDone
    /\ processed = 1 /\ skipped = 1
    /\ Len(images) = 1

\* The scale the claim names for a width and a height: the first of 10, 8, 4, 2
\* whose quotients are whole numbers in [16, 32], or 1.
ClaimedFits(width, height, scale) ==
    /\ \E q \in 16..32 : q * scale = width
    /\ \E q \in 16..32 : q * scale = height
ClaimedScale(width, height) ==
    IF ClaimedFits(width, height, 10) THEN 10
    ELSE IF ClaimedFits(width, height, 8) THEN 8
    ELSE IF ClaimedFits(width, height, 4) THEN 4
    ELSE IF ClaimedFits(width, height, 2) THEN 2
    ELSE 1

\* C13: the downscaling picks the first scale s of 10, 8, 4, 2 for which
\* width / s and height / s are whole numbers in [16, 32]; the result has that
\* size and its pixel (x, y) is the source pixel at
\* (floor(x * s + s / 2), floor(y * s + s / 2)); without such a scale the
\* image keeps its native size and pixels.
C13_Downscale ==
    result # <<>> =>
        LET width == call[1]
            height == call[2]
            s == ClaimedScale(width, height)
            out == result.scaled
        IN  /\ result.detectedScale = s
            /\ s = 1 => out = PositionImage(width, height, call[3])
            /\ s > 1 =>
                  /\ out.w * s = width /\ out.h * s = height
                  /\ \A x \in 0..(out.w - 1), y \in 0..(out.h - 1) :
                        out.data[y * out.w + x + 1] =
                            <<x * s + s \div 2, y * s + s \div 2, call[3], 255>>

\* A 40x40 image has been downscaled by 2 to 20x20.
C13_Witness ==
    /\ result # <<>>
    /\ call[1] = 40 /\ call[2] = 40
    /\ result.detectedScale = 2
    /\ result.scaled.w = 20 /\ result.scaled.h = 20

\* C14: during an import at most one file is being decoded or analysed at any
\* time, whatever the order in which the callbacks run.
C14_OneFileAtATime == Cardinality({d.file : d \in decoding}) <= 1

\* C15: a folder import or a server auto-load of n files always runs to
\* completion, and at its end processed + skipped = n: as long as it has not
\* finished one of its callbacks is due, and once it has the counters add up.
C15_ImportCompletes ==
    (importKind \in {"folder", "server"}) =>
        IF importDone THEN processed + skipped = Len(importFiles)
        ELSE ENABLED NextImport

\* The pixels of a surface with alpha 128 or more, and those of one color.
OpaqueIndices(surface) == {i \in 1..Len(surface.data) : surface.data[i][4] >= 128}
IndicesOfColor(surface, hex) ==
    {i \in OpaqueIndices(surface) :
        rgbToHex(surface.data[i][1], surface.data[i][2], surface.data[i][3]) = hex}

RECURSIVE SumCounts(_, _)
SumCounts(cm, k) == IF k = 0 THEN 0 ELSE cm[k].count + SumCounts(cm, k - 1)

\* C16: the colorMap of an analysis has one entry for each distinct color of
\* the pixels with alpha >= 128, holding the exact number of those pixels;
\* pixels with alpha < 128 count for no entry, the counts sum to the number of
\* pixels with alpha >= 128, and originalColorCount is the number of keys.
C16_ColorMapExact ==
    result # <<>> =>
        LET cm == result.colorMap
        IN  /\ \A i \in OpaqueIndices(call) :
                  \E k \in 1..Len(cm) :
                      cm[k].color = rgbToHex(call.data[i][1], call.data[i][2],
                                             call.data[i][3])
            /\ \A k \in 1..Len(cm) :
                  /\ cm[k].count = Cardinality(IndicesOfColor(call, cm[k].color))
                  /\ cm[k].count > 0
                  /\ \A j \in 1..Len(cm) : cm[j].color = cm[k].color => j = k
            /\ SumCounts(cm, Len(cm)) = Cardinality(OpaqueIndices(call))
            /\ result.originalColorCount = Len(cm)

\* The checkerboard has been analysed: two entries of 200 pixels each.
C16_Witness ==
    /\ call = Checkerboard
    /\ result # <<>>
    /\ Len(result.colorMap) = 2
    /\ result.colorMap[1].count = 200 /\ result.colorMap[2].count = 200
    /\ result.originalColorCount = 2

\* C17: the palette quantizeColors returns has at most 15 colors and at most
\* as many colors as the colorMap has keys, and each of its colors is a key of
\* the colorMap.
C17_QuantizedPalette ==
    result # <<>> =>
        LET pal == result.palette
            keys == {call[1][k].color : k \in 1..Len(call[1])}
        IN  /\ Len(pal) <= 15
            /\ Len(pal) <= Cardinality(keys)
            /\ \A i \in 1..Len(pal) : pal[i] \in keys

\* A map of more than 15 colors that are far apart was cut to 15 colors.
C17_Witness ==
    /\ result # <<>>
    /\ Len(call[1]) = DistantColors
    /\ call[2] = 30
    /\ Len(result.palette) = 15

\* A color of an image palette matches a reference palette when it equals one
\* of its colors ignoring case or lies at Euclidean RGB distance below 20 from
\* one of them.
ClaimedMatch(color, reference) ==
    \E i \in 1..Len(reference) :
        \/ toUpperCase(color) = toUpperCase(reference[i])
        \/ LET a == hexToRgb(color)
               b == hexToRgb(reference[i])
           IN  (a[1] - b[1]) * (a[1] - b[1]) + (a[2] - b[2]) * (a[2] - b[2])
                   + (a[3] - b[3]) * (a[3] - b[3]) < 20 * 20

\* C18: calculatePaletteMatch returns an integer percentage in [0, 100], the
\* rounded value of 100 * matches / imagePalette.length, and 0 when the
\* reference palette is empty.
C18_PaletteMatch ==
    result # <<>> =>
        LET imagePalette == call[1]
            reference == call[2]
            matches == Cardinality({i \in 1..Len(imagePalette) :
                                       ClaimedMatch(imagePalette[i], reference)})
            score == result.matchScore
        IN  /\ score \in 0..100
            /\ reference = <<>> => score = 0
            /\ reference # <<>> =>
                  /\ 2 * Len(imagePalette) * score <= 200 * matches + Len(imagePalette)
                  /\ 200 * matches + Len(imagePalette) < 2 * Len(imagePalette) * (score + 1)

\* C19: the pencil/eraser line from (x0, y0) to (x1, y1) ends, plots both
\* endpoints and exactly max(|x1 - x0|, |y1 - y0|) + 1 pixels, each 8-adjacent
\* to the one plotted before it; on the layer exactly the plotted pixels inside
\* the canvas are drawn (pencil) or erased (eraser).
C19_Line ==
    result # <<>> =>
        LET pts == result.plotted
            n == Max(Abs(call[3] - call[1]), Abs(call[4] - call[2])) + 1
            plotted == {pts[i] : i \in 1..Len(pts)}
            changed == IF call[5] THEN Clear ELSE BlackPx
            kept == IF call[5] THEN BlackPx ELSE Clear
        IN  /\ Len(pts) = n
            /\ Cardinality(plotted) = n
            /\ pts[1] = <<call[1], call[2]>>
            /\ pts[n] = <<call[3], call[4]>>
            /\ \A i \in 2..n :
                  /\ Abs(pts[i][1] - pts[i - 1][1]) <= 1
                  /\ Abs(pts[i][2] - pts[i - 1][2]) <= 1
            /\ \A x \in 0..(LineSize - 1), y \in 0..(LineSize - 1) :
                  PixelAt(result.canvas, x, y) =
                      IF <<x, y>> \in plotted THEN changed ELSE kept

\* The pencil line from (0,0) to (3,3) has made exactly the four pixels of the
\* diagonal opaque.
C19_Witness ==
    /\ call = <<0, 0, 3, 3, FALSE>>
    /\ result # <<>>
    /\ result.plotted = << <<0, 0>>, <<1, 1>>, <<2, 2>>, <<3, 3>> >>
    /\ {i \in 1..Len(result.canvas.data) : result.canvas.data[i][4] = 255} =
           {k * result.canvas.w + k + 1 : k \in 0..3}

\* The step is the move of a floating content that a lasso around the 3x3
\* square of LassoLo..(LassoHi - 1) selected and that was dragged by (+2, +2).
SquareMovedByTwo ==
    /\ lassoContent # <<>>
    /\ moveLassoContent
    /\ \A x \in 0..(canvasW - 1), y \in 0..(canvasH - 1) :
          isPointInLasso(lassoPoints, x, y) <=>
              (x \in LassoLo..(LassoHi - 1) /\ y \in LassoLo..(LassoHi - 1))
    /\ lassoContent[1].x = LassoLo + 2
    /\ lassoContent[1].y = LassoLo + 2

InOldRegion(x, y) == x \in LassoLo..(LassoHi - 1) /\ y \in LassoLo..(LassoHi - 1)
InNewRegion(x, y) == InOldRegion(x - 2, y - 2)

\* C20 as stated: after the move the whole original 3x3 region is transparent
\* and the 3x3 region at the new offset holds the original pixels.
C20_Original ==
    [][SquareMovedByTwo =>
          \A x \in LassoLo..(LassoHi - 1), y \in LassoLo..(LassoHi - 1) :
              /\ PixelAt(layers'[currentLayerIndex + 1].canvas, x, y) = Clear
              /\ PixelAt(layers'[currentLayerIndex + 1].canvas, x + 2, y + 2) =
                     PixelAt(LassoOriginal, x, y)]_vars

\* C20: after the move the original 3x3 region is transparent outside the
\* region at the new offset; each pixel of the region at the new offset is the
\* original pixel drawn source-over onto what the layer held there after the
\* selection was lifted, which is the original pixel itself when that pixel
\* is opaque or the place was transparent; every other pixel is unchanged.
C20_LassoMove ==
    [][SquareMovedByTwo =>
          \A x \in 0..(canvasW - 1), y \in 0..(canvasH - 1) :
              LET now == PixelAt(layers'[currentLayerIndex + 1].canvas, x, y)
                  moved == PixelAt(LassoOriginal, x - 2, y - 2)
                  under == IF InOldRegion(x, y) THEN Clear
                           ELSE PixelAt(LassoOriginal, x, y)
              IN  IF InNewRegion(x, y)
                  THEN /\ now = Over(moved, under)
                       /\ (moved[4] = 255 \/ under[4] = 0) => now = moved
                       /\ moved[4] = 0 => now = under
                  ELSE IF InOldRegion(x, y) THEN now = Clear
                  ELSE now = PixelAt(LassoOriginal, x, y)]_vars

\* The block of opaque pixels has been moved by (+2, +2) on the empty layer.
C20_Witness ==
    /\ modalActive
    /\ ~lassoMode /\ lassoContent = <<>>
    /\ historyIndex = 1
    /\ \A x \in 0..(canvasW - 1), y \in 0..(canvasH - 1) :
          PixelAt(layers[currentLayerIndex + 1].canvas, x, y) =
              IF InNewRegion(x, y) THEN <<x - 2, y - 2, 0, 255>> ELSE Clear

---------------------------------------------------------------------------
(* Properties of the editor's tools and layers.                            *)

OffCanvas(x, y) == x < 0 \/ y < 0 \/ x >= canvasW \/ y >= canvasH

\* The tools that act on the one pixel under the pointer.
PlotTools == {"pencil", "eraser", "fill", "picker"}

\* A step in which a lasso drag is released.
LassoRelease ==
    /\ currentTool = "lasso" /\ isDrawing /\ lassoContent = <<>>
    /\ isDrawing' = FALSE

\* Every layer keeps its dimensions and its number of pixels.
SameSurfaces ==
    /\ Len(layers') = Len(layers)
    /\ \A i \in 1..Len(layers) :
          /\ layers'[i].canvas.w = layers[i].canvas.w
          /\ layers'[i].canvas.h = layers[i].canvas.h
          /\ DOMAIN layers'[i].canvas.data = DOMAIN layers[i].canvas.data

\* C21: no operation fails on off-canvas coordinates: a press of the
\* pencil, the eraser, the fill or the picker (or an alt-pick) at a point
\* outside the canvas leaves every layer unchanged; a pencil or eraser drag,
\* a shape and a lasso with points outside the canvas change pixels of the
\* layers' own surfaces only; and the release of a lasso of three points or
\* more never raises an error.
C21_OffCanvas ==
    [][/\ \A p \in EdgePoints, alt \in BOOLEAN :
            (/\ OffCanvas(p[1], p[2])
             /\ ~isDrawing
             /\ alt \/ currentTool \in PlotTools
             /\ onMouseDown(p[1], p[2], alt)) => layers' = layers
       /\ modalActive /\ isDrawing => SameSurfaces
       /\ LassoRelease /\ Len(lassoPoints) > 2 =>
            ~extractLassoContentThrows(lassoPoints, canvasW, canvasH)]_vars

\* The same without the lasso: the presses and the drags past the edges.
C21_PlotsAndShapes ==
    [][/\ \A p \in EdgePoints, alt \in BOOLEAN :
            (/\ OffCanvas(p[1], p[2])
             /\ ~isDrawing
             /\ alt \/ currentTool \in PlotTools
             /\ onMouseDown(p[1], p[2], alt)) => layers' = layers
       /\ modalActive /\ isDrawing => SameSurfaces]_vars

\* C22: rgbToHex yields '#' and exactly six hex digits, and hexToRgb of
\* that string is the triple (r, g, b) rgbToHex was given.
C22_RoundTrip ==
    /\ Len(result) >= 1 =>
          /\ Len(result[1]) = 7
          /\ result[1][1] = "#"
          /\ \A i \in 2..7 : HexVal(result[1][i]) >= 0
    /\ Len(result) = 2 => result[2] = call

\* A color with a channel below 16 (one hex digit before the padding) and a
\* channel above it went through both conversions.
C22_Witness ==
    /\ Len(result) = 2
    /\ \E i \in 1..3 : call[i] \in 1..15
    /\ \E i \in 1..3 : call[i] = 255

\* C23: the server only reads: no request to one of its endpoints creates,
\* overwrites, renames, moves or deletes a file or a directory.
C23_ServerOnlyReads == [][disk' = disk]_vars

\* A step that takes a snapshot (addLayer, deleteLayer and the load do;
\* undo, redo and a click on a layer do not).
TakesSnapshot == history' # history /\ history' # <<>>

\* C24: while the editor is open 0 <= currentLayerIndex < number of layers;
\* deleteLayer removes the active layer and clamps the index into the
\* remaining stack, addLayer makes the new top layer the active one, and
\* undo and redo leave an index that is valid for the restored stack.
C24_IndexInRange ==
    [][/\ modalActive' =>
            currentLayerIndex' >= 0 /\ currentLayerIndex' < Len(layers')
       /\ modalActive /\ TakesSnapshot /\ Len(layers') = Len(layers) + 1 =>
            currentLayerIndex' = Len(layers') - 1
       /\ modalActive /\ TakesSnapshot /\ Len(layers') = Len(layers) - 1 =>
            /\ layers' = Splice(layers, currentLayerIndex)
            /\ currentLayerIndex' = Min(currentLayerIndex, Len(layers') - 1)
       /\ modalActive /\ history' = history /\ historyIndex' # historyIndex =>
            /\ currentLayerIndex' = history[historyIndex' + 1].currentLayerIndex
            /\ Len(layers') = Len(history[historyIndex' + 1].layers)]_vars

\* The top layer of three was deleted (the index was clamped) and the
\* delete was then undone.
C24_Witness ==
    /\ modalActive
    /\ Len(history) >= 4
    /\ historyIndex = Len(history) - 2
    /\ Len(layers) = 3 /\ currentLayerIndex = 2
    /\ Len(history[Len(history)].layers) = 2
    /\ history[Len(history)].currentLayerIndex = 1

\* The layers that are visible and not fully transparent at pixel k.
ShowsAt(k) == {i \in 1..Len(layers) : layers[i].visible /\ layers[i].canvas.data[k][4] > 0}
TopAt(k) == CHOOSE i \in ShowsAt(k) : \A j \in ShowsAt(k) : j <= i

\* The visible layers, bottom to top.
VisibleLayers == SelectSeq(layers, LAMBDA l : l.visible)

\* The hidden layers do not influence the composed canvas.
HiddenIgnored == Composed = composeLayers(VisibleLayers, canvasW, canvasH)

\* A click on a visibility icon changes no layer's pixels.
ToggleKeepsPixels ==
    \A index \in 0..(MaxLayers - 1) :
        ToggleVisibility(index) =>
            /\ Len(layers') = Len(layers)
            /\ \A i \in 1..Len(layers) : layers'[i].canvas = layers[i].canvas

\* The composed pixel is the one of the topmost visible layer that has a
\* pixel there, and transparent where no visible layer has one.
TopmostPixel ==
    \A k \in 1..(canvasW * canvasH) :
        Composed.data[k] = IF ShowsAt(k) = {} THEN Clear
                           ELSE layers[TopAt(k)].canvas.data[k]

SourceOver ==
    \A k \in 1..(canvasW * canvasH) :
        Composed.data[k] =
            IF ShowsAt(k) = {} THEN Clear
            ELSE LET top == layers[TopAt(k)].canvas.data[k]
                     below == composeLayers(SubSeq(layers, 1, TopAt(k) - 1),
                                            canvasW, canvasH).data[k]
                 IN  IF top[4] = 255 THEN top ELSE Stored(Over(top, below))

ToolStep ==
    \/ \E p \in EdgePoints : onMouseDown(p[1], p[2], FALSE)
    \/ \E p \in EdgePoints : onMouseMove(p[1], p[2])
    \/ \E p \in EdgePoints : onMouseUp(p[1], p[2])
    \/ moveLassoContent

\* The layers other than the one at currentLayerIndex are as they were.
OtherLayersKept ==
    /\ Len(layers') = Len(layers)
    /\ \A i \in 1..Len(layers) : i # currentLayerIndex + 1 => layers'[i] = layers[i]

\* C26: the pencil, the eraser, the line, the rectangle, the circle, the
\* fill and the lasso (extraction and move) change pixels of the layer at
\* currentLayerIndex only: every other layer of the stack is unchanged.
C26_ActiveLayerOnly == [][ToolStep => OtherLayersKept]_vars

\* A tool changed the upper of two layers, the active one, and the lower
\* layer still holds the image as it was loaded.
C26_Witness ==
    /\ modalActive /\ Len(layers) = 2 /\ currentLayerIndex = 1
    /\ layers[2].canvas # NewSurface(canvasW, canvasH)
    /\ layers[1].canvas.data = history[1].layers[1].imageData.data
    /\ \E k \in 1..(canvasW * canvasH) : layers[1].canvas.data[k] # Clear

\* A line, a rectangle or a circle is being dragged.
ShapeDrag == isDrawing /\ currentTool \in ShapeTools

\* Every pixel of the overlay (tempCanvas) is transparent.
OverlayEmpty == \A k \in DOMAIN tempLayer.data : tempLayer.data[k] = Clear

\* The overlay after a move to (x, y), on its own.
PreviewAt(x, y) ==
    ShapeOnContext(currentTool, NewSurface(canvasW, canvasH), startX, startY,
                   x, y, primaryColor, fillShape)

CropInside ==
    /\ cropRect # <<>>
    /\ cropRect[1].x >= 0 /\ cropRect[1].y >= 0
    /\ cropRect[1].width >= 1 /\ cropRect[1].height >= 1
    /\ cropRect[1].x + cropRect[1].width <= canvasW
    /\ cropRect[1].y + cropRect[1].height <= canvasH

\* C28: in every reachable state of the open editor in which crop mode is
\* active, the crop rectangle lies inside the current canvas and is at
\* least 1x1, after any sequence of drags, resizes with any of the eight
\* handles, tool switches, and a close of the editor followed by its
\* opening on another image.
C28_CropInside == modalActive /\ cropMode => CropInside

\* Every layer is the rectangle r of what it was, and the canvas and the
\* overlay have the size of r.
CroppedTo(r) ==
    /\ Len(layers') = Len(layers)
    /\ \A n \in 1..Len(layers) :
          /\ layers'[n].canvas.w = r.width
          /\ layers'[n].canvas.h = r.height
          /\ Len(layers'[n].canvas.data) = r.width * r.height
          /\ layers'[n].visible = layers[n].visible
          /\ \A i \in 0..(r.width - 1), j \in 0..(r.height - 1) :
                PixelAt(layers'[n].canvas, i, j) =
                    PixelAt(layers[n].canvas, r.x + i, r.y + j)
    /\ canvasW' = r.width /\ canvasH' = r.height
    /\ tempLayer'.w = r.width /\ tempLayer'.h = r.height

\* C29: on crop confirm with the rectangle (x, y, w, h) every layer,
\* visible or hidden, becomes a w x h surface whose pixel (i, j) is the
\* layer's former pixel (x + i, y + j), and the canvas and the overlay (and
\* the preview, which is sized with the canvas) become w x h; when crop mode
\* is left without a confirm, no layer, no canvas dimension and no history
\* entry changes.
C29_Crop ==
    [][/\ modalActive /\ cropRect # <<>> /\ confirmCrop => CroppedTo(cropRect[1])
       /\ modalActive /\ cropMode /\ ~cropMode' /\ ~confirmCrop =>
            /\ layers' = layers
            /\ canvasW' = canvasW /\ canvasH' = canvasH
            /\ tempLayer' = tempLayer
            /\ history' = history /\ historyIndex' = historyIndex]_vars

\* A crop to a rectangle away from the origin was applied to two layers,
\* the lower one hidden, the upper one with a pencil stroke.
C29_Witness ==
    /\ modalActive /\ ~cropMode
    /\ Len(layers) = 2 /\ ~layers[1].visible
    /\ historyIndex = 3
    /\ canvasW = 2 /\ canvasH = 2
    /\ layers[1].canvas.data[1] = <<5, 0, 0, 255>>
    /\ layers[2].canvas.data[1] = BlackPx

\* The pixel (x, y) of the active layer went to the floating content, at
\* its offset from the origin of the content, and is transparent in the layer.
Extracted(x, y) ==
    /\ lassoContent' # <<>>
    /\ InSurface(lassoContent'[1].canvas, x - lassoContent'[1].x, y - lassoContent'[1].y)
    /\ PixelAt(lassoContent'[1].canvas, x - lassoContent'[1].x, y - lassoContent'[1].y) =
           PixelAt(layers[currentLayerIndex + 1].canvas, x, y)
    /\ PixelAt(layers'[currentLayerIndex + 1].canvas, x, y) = Clear

\* The pixel (x, y) of the active layer is as it was, and the floating
\* content, if there is one, is transparent at its place.
LeftInPlace(x, y) ==
    /\ PixelAt(layers'[currentLayerIndex + 1].canvas, x, y) =
           PixelAt(layers[currentLayerIndex + 1].canvas, x, y)
    /\ lassoContent' # <<>> =>
           PixelAt(lassoContent'[1].canvas, x - lassoContent'[1].x, y - lassoContent'[1].y) = Clear

\* The floating content starts at the corner of the bounding box of the
\* points, clipped to the canvas, and has no pixel outside the canvas.
ContentInBox ==
    lassoContent' # <<>> =>
        /\ lassoContent'[1].x = Max(0, MinOf([i \in 1..Len(lassoPoints) |-> lassoPoints[i].x]))
        /\ lassoContent'[1].y = Max(0, MinOf([i \in 1..Len(lassoPoints) |-> lassoPoints[i].y]))
        /\ lassoContent'[1].x + lassoContent'[1].canvas.w <= canvasW
        /\ lassoContent'[1].y + lassoContent'[1].canvas.h <= canvasH

\* C30: the release of a lasso of at least 3 points partitions the pixels
\* of the active layer: each pixel the ray-casting test places inside the
\* polygon is copied unchanged into the floating content, at its offset from
\* the origin of the clipped bounding box, and becomes transparent in the
\* layer; every other pixel is unchanged in the layer and transparent in the
\* content; the release of a lasso of fewer than 3 points extracts nothing
\* and leaves the layer unchanged.
C30_LassoPartition ==
    [][modalActive /\ LassoRelease =>
          /\ OtherLayersKept
          /\ IF Len(lassoPoints) >= 3
             THEN /\ \A x \in 0..(canvasW - 1), y \in 0..(canvasH - 1) :
                        IF isPointInLasso(lassoPoints, x, y)
                        THEN Extracted(x, y) ELSE LeftInPlace(x, y)
                  /\ ContentInBox
             ELSE layers' = layers /\ lassoContent' = <<>>]_vars

\* A lasso took a pixel of the layer into the floating content and left
\* another pixel of the layer in place.
C30_Witness ==
    /\ modalActive /\ ~isDrawing /\ lassoContent # <<>>
    /\ Len(lassoPoints) >= 3
    /\ \E k \in DOMAIN lassoContent[1].canvas.data : lassoContent[1].canvas.data[k] # Clear
    /\ \E x \in 0..(canvasW - 1), y \in 0..(canvasH - 1) :
          /\ ~isPointInLasso(lassoPoints, x, y)
          /\ PixelAt(layers[currentLayerIndex + 1].canvas, x, y) # Clear

---------------------------------------------------------------------------
(* Properties of the lasso buttons, the analysis, the records and the      *)
(* history.                                                                *)

\* The pixels the lasso took are transparent in the active layer.
LiftedStayClear ==
    \A x \in 0..(canvasW - 1), y \in 0..(canvasH - 1) :
        isPointInLasso(lassoPoints, x, y) =>
            PixelAt(layers'[currentLayerIndex + 1].canvas, x, y) = Clear

\* Each pixel of the content lands on the active layer at its own place
\* plus the content's offset, drawn over what the layer holds there; the
\* layer is unchanged elsewhere.
Translated ==
    \A x \in 0..(canvasW - 1), y \in 0..(canvasH - 1) :
        PixelAt(layers'[currentLayerIndex + 1].canvas, x, y) =
            IF InSurface(lassoContent[1].canvas, x - lassoContent[1].x, y - lassoContent[1].y)
            THEN Over(PixelAt(lassoContent[1].canvas,
                              x - lassoContent[1].x, y - lassoContent[1].y),
                      PixelAt(layers[currentLayerIndex + 1].canvas, x, y))
            ELSE PixelAt(layers[currentLayerIndex + 1].canvas, x, y)

\* C31: after a lasso extraction, cut and cancel discard the floating
\* content without writing it back, so the extracted pixels stay
\* transparent in the layer; move writes the content onto the active layer
\* at the content's current offset, pixel for pixel (a translation); after
\* any of the three no floating content remains.
C31_LassoButtons ==
    [][/\ lassoContent # <<>> /\ (cutLassoContent \/ exitLassoMode) =>
            /\ layers' = layers
            /\ LiftedStayClear
            /\ lassoContent' = <<>>
       /\ lassoContent # <<>> /\ moveLassoContent =>
            /\ Translated
            /\ OtherLayersKept
            /\ lassoContent' = <<>>]_vars

\* The cancel button was pressed after an extraction: the layer lacks the
\* pixels the lasso took, which the only snapshot still holds.
C31_Witness ==
    /\ modalActive /\ ~lassoMode /\ lassoContent = <<>>
    /\ historyIndex = 0 /\ Len(history) = 1
    /\ \E k \in 1..(canvasW * canvasH) :
          /\ layers[1].canvas.data[k] = Clear
          /\ history[1].layers[1].imageData.data[k] # Clear

\* The distinct colors of the pixels of alpha 128 or more of the image
\* analysed.
PolicyDistinct ==
    LET img == PolicyImage(call.n, call.off, call.extra)
    IN  {rgbToHex(img.data[i][1], img.data[i][2], img.data[i][3]) :
            i \in OpaqueIndices(img)}

\* C32: analyze quantizes only when quantize is true and the surface has
\* more than 15 distinct opaque colors: in every other case the palette is
\* exactly the keys of the colorMap; and whether it quantizes or not, the
\* colorMap holds every distinct opaque color of the surface and
\* originalColorCount is their number.
C32_QuantizePolicy ==
    result # <<>> =>
        LET keys == MapKeys(result.colorMap)
            keySet == {keys[k] : k \in 1..Len(keys)}
        IN  /\ keySet = PolicyDistinct
            /\ Len(keys) = Cardinality(PolicyDistinct)
            /\ result.originalColorCount = Cardinality(PolicyDistinct)
            /\ ~(call.quantize /\ Cardinality(PolicyDistinct) > 15) =>
                   result.colors = keys
            /\ call.quantize /\ Cardinality(PolicyDistinct) > 15 =>
                   /\ Len(result.colors) <= 15
                   /\ \A i \in 1..Len(result.colors) : result.colors[i] \in keySet

\* An image of 16 colors was quantized to fewer colors, and its colorMap
\* still has the 16.
C32_Witness ==
    /\ result # <<>>
    /\ call.quantize /\ call.n = 16
    /\ Len(result.colors) < 16
    /\ Len(result.colorMap) = 16
    /\ result.originalColorCount = 16

\* Entry j of the colorMap of call comes before entry k in descending
\* order of pixel count (entries of equal count keep the order of the map).
Before(j, k) ==
    \/ call[1][j].count > call[1][k].count
    \/ call[1][j].count = call[1][k].count /\ j < k

\* Entries j and k are at a distance below the threshold of call.
Near(j, k) ==
    colorDistanceBelow(hexToRgb(call[1][j].color), hexToRgb(call[1][k].color), call[2])

\* The entries whose color is in the palette returned.
Chosen == {k \in 1..Len(call[1]) :
              \E i \in 1..Len(result.palette) : result.palette[i] = call[1][k].color}

\* C33: the quantized palette is the output of the greedy pass over the
\* colors in descending order of pixel count: a color is a representative
\* if and only if no earlier representative is at a distance below the
\* threshold and fewer than 15 representatives were chosen before it; the
\* representatives appear in that order (non-increasing frequency), none
\* appears twice, and any two are at a distance of the threshold or more.
C33_GreedyPass ==
    result # <<>> =>
        LET pal == result.palette
            at(i) == CHOOSE k \in 1..Len(call[1]) : call[1][k].color = pal[i]
        IN  /\ \A k \in 1..Len(call[1]) :
                  k \in Chosen <=>
                      /\ ~\E j \in Chosen : Before(j, k) /\ Near(j, k)
                      /\ Cardinality({j \in Chosen : Before(j, k)}) < 15
            /\ \A i \in 1..Len(pal) : \E k \in 1..Len(call[1]) : call[1][k].color = pal[i]
            /\ \A i, j \in 1..Len(pal) :
                  i < j => /\ Before(at(i), at(j))
                           /\ call[1][at(i)].count >= call[1][at(j)].count
                           /\ pal[i] # pal[j]
                           /\ ~Near(at(i), at(j))

\* A map whose counts differ gave a palette of several colors, fewer than
\* 15 and fewer than the map has: some colors were merged into others.
C33_Witness ==
    /\ result # <<>>
    /\ Len(result.palette) \in 2..14
    /\ Len(result.palette) < Len(call[1])
    /\ \E k \in 1..Len(call[1]) :
          /\ k \notin Chosen
          /\ \E j \in Chosen : Before(j, k) /\ Near(j, k) /\ call[1][j].count > call[1][k].count

\* C34: between opening the editor on an image and saving, no field of the
\* image's record changes: save is the only step of an editing session that
\* writes a record of the asset list, so a session closed without saving
\* leaves the record as it was.
C34_RecordKept == [][images' = images \/ save]_vars

\* The editor after the load of img: one layer with the image, one snapshot
\* of it under the cursor, and no crop rectangle, floating content or drag.
Superseded(img) ==
    /\ Len(layers) = 1
    /\ layers[1].visible
    /\ getImageData(layers[1].canvas, img.width, img.height).data = img.dataUrl.data
    /\ historyIndex = 0
    /\ history = <<Snapshot(layers, 0, canvasW, canvasH)>>
    /\ ~cropMode /\ cropRect = <<>>
    /\ lassoContent = <<>>
    /\ ~isDrawing

\* C35: a load supersedes all earlier editor state: when the onload handler
\* of loadImage has run, the layer stack holds exactly one layer with the
\* loaded image, the history holds exactly one snapshot (of that state) with
\* the cursor at 0, and no crop rectangle, floating lasso content or drag of
\* an earlier session remains.
C35_LoadSupersedes ==
    [][\A img \in pending : ImgOnload(img) => Superseded(img)']_vars

\* The canonical form of a color: '#' and six uppercase hex digits.
Canonical(color) ==
    /\ Len(color) = 7
    /\ color[1] = "#"
    /\ \A i \in 2..7 : \E d \in 1..16 : color[i] = HexDigitsUpper[d]

\* C36: every color of a record's palette and every key of its colorMap is
\* in the canonical uppercase form, whether import analysis, the live
\* recount of the editor or save stored it, and so is every entry of the
\* master palette, which therefore never holds one color in two spellings.
C36_CanonicalColors ==
    /\ \A i \in 1..Len(images) :
          /\ \A k \in 1..Len(images[i].palette) : Canonical(images[i].palette[k])
          /\ \A k \in 1..Len(images[i].colorMap) : Canonical(images[i].colorMap[k].color)
    /\ \A k \in 1..Len(masterPalette) : Canonical(masterPalette[k])

\* A rename or a copy request that names its source and its destination.
RenameOrCopy(source, dest, folder) ==
    /\ source # "" /\ dest # ""
    /\ renameImage(source, dest, folder) \/ copyImage(source, dest, folder)

SourcePath(source, folder) == join(TargetDir(folder), <<source>>)
DestPath(dest, folder) == join(TargetDir(folder), <<dest>>)

\* C37: a rename or copy request whose source does not exist is rejected
\* with 404, and one whose source exists and whose destination name already
\* exists with 409; in both cases, and for every request rejected with 400,
\* the files and directories on disk are as they were before the request.
C37_Rejections ==
    [][/\ \A source \in RequestNames, dest \in NewNames, folder \in RequestFolders :
             RenameOrCopy(source, dest, folder) =>
                /\ ~existsSync(disk, SourcePath(source, folder)) =>
                       response' = Failed(404) /\ disk' = disk
                /\ /\ existsSync(disk, SourcePath(source, folder))
                   /\ existsSync(disk, DestPath(dest, folder))
                   => response' = Failed(409) /\ disk' = disk
       /\ response' = Failed(400) => disk' = disk]_vars

\* A copy was rejected because its destination exists: the source is still
\* there and so is the destination.
C37_Witness ==
    /\ response = Failed(409)
    /\ existsSync(disk, SourcePath("a.png", <<>>))
    /\ existsSync(disk, DestPath("b.png", <<>>))

\* C37 as first stated: every rename or copy request whose destination name
\* already exists is rejected with 409, and every one whose source does not
\* exist with 404, the disk staying as it was.
C37_Original ==
    [][/\ \A source \in RequestNames, dest \in NewNames, folder \in RequestFolders :
             RenameOrCopy(source, dest, folder) =>
                /\ ~existsSync(disk, SourcePath(source, folder)) =>
                       response' = Failed(404) /\ disk' = disk
                /\ existsSync(disk, DestPath(dest, folder)) =>
                       response' = Failed(409) /\ disk' = disk
       /\ response' = Failed(400) => disk' = disk]_vars

\* C38: whenever the editor is idle (open, no drag in progress and no
\* floating lasso content), the pixel data of every live layer is the pixel
\* data of that layer in the snapshot under the history cursor.
C38_IdleMatchesSnapshot ==
    (modalActive /\ ~isDrawing /\ lassoContent = <<>>) =>
        /\ historyIndex \in 0..(Len(history) - 1)
        /\ Len(history[historyIndex + 1].layers) = Len(layers)
        /\ \A i \in 1..Len(layers) :
              getImageData(layers[i].canvas, canvasW, canvasH)
                  = history[historyIndex + 1].layers[i].imageData

\* A press or a release of the left button with the picker tool.
PickerClick ==
    /\ currentTool = "picker"
    /\ \E p \in Points : onMouseDown(p[1], p[2], FALSE) \/ onMouseUp(p[1], p[2])

\* The other operations that commit nothing: an Alt+click, a click on a
\* layer or on its visibility icon, a tool button and the lasso cancel.
CommitsNothing ==
    \/ \E p \in Points : onMouseDown(p[1], p[2], TRUE)
    \/ \E index \in 0..(MaxLayers - 1) : SelectLayer(index) \/ ToggleVisibility(index)
    \/ \E tool \in Tools : SelectTool(tool)
    \/ exitLassoMode

\* C39: operations that commit nothing never touch the history: a press and
\* a release with the picker tool, an Alt+click pick, a layer-visibility
\* toggle, a layer selection, a tool change and a lasso cancel add no
\* snapshot, leave the cursor where it was and discard no redo snapshot.
C39_HistoryUntouched ==
    [][(PickerClick \/ CommitsNothing) => UNCHANGED <<history, historyIndex>>]_vars

\* C40: an imported raster whose native width and height both lie in
\* [16, 32] keeps its native dimensions and its pixels: the scale detection
\* finds no scale for it (detectedScale = 1), for every such size.
C40_NativeKept ==
    (result # <<>> /\ call[1] \in 16..32 /\ call[2] \in 16..32) =>
        /\ result.detectedScale = 1
        /\ result.scaled = PositionImage(call[1], call[2], call[3])

=============================================================================
